---- MODULE Spec2Model ----
(***************************************************************************)
(* Model of the easters-crypto core: BlockchainProvider, TokenManager,     *)
(* SmartContractService and DomainResolver.                                *)
(*                                                                         *)
(* Strings the code inspects are modelled by what the code does to them:   *)
(*   - a domain is a sequence of characters, so endsWith is computed;      *)
(*   - an address-like string is a record [cls, form]: cls is the string   *)
(*     up to letter case, form is the spelling (checksum, lower, a         *)
(*     mixed-case spelling with a wrong checksum, or plain when the        *)
(*     string has no letters), so toLowerCase and isAddress are computed.  *)
(* A JavaScript object used as a map is a function whose DOMAIN is the set *)
(* of its own keys; a result object is a record whose DOMAIN is the set    *)
(* of the fields it carries.                                               *)
(***************************************************************************)
EXTENDS Integers, Sequences, FiniteSets, TLC

\* ------------------------------------------------------------------ bounds
NumAddr == 1
MaxHandles == 3
MaxPrice == 2
MaxShares == 2
MaxTokenId == 1
MaxTextValues == 2
NumTasks == 2

\* ----------------------------------------------------------------- strings
Null == [null |-> TRUE]

AddressZero == [cls |-> 0, form |-> "plain"]

NotAnAddress == [cls |-> -1, form |-> "plain"]

AddrClasses == 1..NumAddr

Checksum(c) == [cls |-> c, form |-> "checksum"]

Lower(c) == [cls |-> c, form |-> "lower"]

BadChecksum(c) == [cls |-> c, form |-> "badsum"]

\* the spellings of well-formed addresses a caller can pass
WellFormed == {Checksum(c) : c \in AddrClasses} \cup {Lower(c) : c \in AddrClasses}

\* the malformed strings a caller can pass
Malformed == {NotAnAddress, BadChecksum(1)}

AddressInputs == WellFormed \cup Malformed

toLowerCaseKeepsCase(s) == s

toLowerCase(s) ==
  IF s.form \in {"checksum", "badsum"} THEN [s EXCEPT !.form = "lower"] ELSE s

isAddressAcceptsAnything(s) == TRUE

isAddress(s) == s.cls >= 0 /\ s.form \in {"checksum", "lower", "plain"}

EndsWith(s, suffix) ==
  /\ Len(s) >= Len(suffix)
  /\ SubSeq(s, Len(s) - Len(suffix) + 1, Len(s)) = suffix

DotEth == <<".", "e", "t", "h">>

UnstoppableTlds ==
  << <<"c","r","y","p","t","o">>, <<"n","f","t">>,
     <<"b","l","o","c","k","c","h","a","i","n">>,
     <<"b","i","t","c","o","i","n">>, <<"x">>, <<"d","a","o">> >>

IsUnstoppableWithoutDot(domain) ==
  \E i \in 1..Len(UnstoppableTlds) : EndsWith(domain, UnstoppableTlds[i])

IsUnstoppable(domain) ==
  \E i \in 1..Len(UnstoppableTlds) : EndsWith(domain, <<".">> \o UnstoppableTlds[i])

\* the domains a caller passes
EthDomains == { <<"a">> \o DotEth, <<"a", ".", "x">> \o DotEth }

OtherDomains ==
  { <<"a", ".">> \o UnstoppableTlds[i] : i \in 1..Len(UnstoppableTlds) } \cup
  { <<"a", ".", "c", "o", "m">>, <<"a", "e", "t", "h">>, <<"a">>,
    <<"a", ".", "E", "T", "H">>, <<"a">> \o DotEth \o <<".", "i", "o">>, <<"a", "x">> }

Domains == EthDomains \cup OtherDomains

\* the domains a caller passes to resolveENSDomain directly
DirectDomains == { <<"a">> \o DotEth, <<"a">>, <<"a", ".", "x">>, <<".", "a">> }

\* ethers.utils.namehash rejects a name with an empty label
HasEmptyLabel(domain) ==
  \/ domain = << >>
  \/ Head(domain) = "."
  \/ domain[Len(domain)] = "."
  \/ \E i \in 1..(Len(domain) - 1) : domain[i] = "." /\ domain[i + 1] = "."

\* ------------------------------------------------------- objects as maps
EmptyObject == [k \in {} |-> Null]

Put(obj, key, value) ==
  [k \in (DOMAIN obj) \cup {key} |-> IF k = key THEN value ELSE obj[k]]

Has(obj, field) == field \in DOMAIN obj

\* ------------------------------------------------------------- the errors
ErrMessage(m) == [msg |-> m]

ErrNetwork == ErrMessage("network error")

ErrRevert == ErrMessage("execution reverted: reason")

ErrNoResolver(domain) == [msg |-> "No resolver found for domain ", domain |-> domain]

ErrUnstoppable == ErrMessage("Unstoppable Domains resolution requires additional implementation")

ErrUnsupported == ErrMessage("Unsupported domain type. Supported: .eth, .crypto, .nft, etc.")

ErrInvalidEnsName == ErrMessage("invalid ENS name; empty component")

VARIABLES
  bpPc,               \* "new" until the BlockchainProvider constructor has run
  config,             \* BlockchainProvider.config
  provider,           \* BlockchainProvider.provider
  web3,               \* BlockchainProvider.web3
  walletConfigured,   \* BlockchainProvider.walletInstance is set
  connected,          \* BlockchainProvider.connected
  contracts,          \* TokenManager.contracts
  deployedContracts,  \* SmartContractService.deployedContracts
  nextHandle,         \* identity of the next ethers.Contract object created
  chainDeployed,      \* address classes at which a deployment has gone live
  drPc,               \* position of the resolution request in flight
  drCall,             \* the public DomainResolver call in flight, with its arguments
  drDomain,           \* resolveENSDomain: domain (after normalisation)
  resolverAddress,    \* resolveENSDomain: resolverAddress
  address,            \* resolveENSDomain: address
  content,            \* resolveENSDomain: content
  metadata,           \* resolveENSDomain: metadata
  keyIdx,             \* resolveENSDomain: position of the loop over textRecords
  drLog,              \* network calls issued so far by the request in flight
  tasks,              \* the manager calls in flight, each suspended at an await
  chainPrice,         \* the price the marketplace contract holds for the listing
  chainRecords,       \* what the registry and the resolver answer, when that is fixed
  kept,               \* the resolution result the caller kept from an earlier call
  ret                 \* what the public call that just completed gave back to its caller

providerVars == <<bpPc, config, provider, web3, walletConfigured, connected>>

mgrVars == <<contracts, deployedContracts, nextHandle, chainDeployed>>

drVars == <<drPc, drCall, drDomain, resolverAddress, address, content, metadata, keyIdx, drLog>>

taskVars == <<tasks, chainPrice>>

envVars == <<chainRecords, kept>>

vars == <<envVars, providerVars, mgrVars, drVars, taskVars, ret>>

\* ---------------------------------------------------------- DomainResolver
textRecords ==
  << <<"description">>, <<"url">>, <<"email">>, <<"avatar">>,
     <<"property", ".", "location">>, <<"property", ".", "beds">>,
     <<"property", ".", "baths">>, <<"property", ".", "sqft">>,
     <<"property", ".", "images">>, <<"property", ".", "video">> >>

ImagesKey == <<"property", ".", "images">>

\* what a resolver can hold under each key (besides nothing)
TextSample ==
  << "a house", "https://x", "e@x", "av.png", "Erie", "3", "2", "1200",
     "[\"u1\",\"u2\"]", "vid.mp4" >>

NotJson == "u1,u2"

\* outcomes of resolver.text(node, key): an error, the empty string, a value
TextOutcomes(i) ==
  {[kind |-> "error"], [kind |-> "value", value |-> ""],
   [kind |-> "value", value |-> TextSample[i]]} \cup
  (IF textRecords[i] = ImagesKey THEN {[kind |-> "value", value |-> NotJson]} ELSE {})

ResolverAddrs == {Checksum(c) : c \in AddrClasses}

\* outcomes of ensRegistry.resolver(node)
RegistryOutcomes ==
  {[kind |-> "error"], [kind |-> "value", value |-> AddressZero]} \cup
  {[kind |-> "value", value |-> r] : r \in ResolverAddrs}

\* outcomes of resolver.addr(node): ethers returns addresses in checksum form
AddrOutcomes ==
  {[kind |-> "error"], [kind |-> "value", value |-> AddressZero]} \cup
  {[kind |-> "value", value |-> Checksum(c)] : c \in AddrClasses}

\* outcomes of resolver.contenthash(node)
ContentOutcomes ==
  {[kind |-> "error"], [kind |-> "value", value |-> ""],
   [kind |-> "value", value |-> "0x"], [kind |-> "value", value |-> "0xe301"],
   [kind |-> "value", value |-> "0xzz"]}

DecodeNeverThrows(hex) == FALSE

\* contentHash.decode throws on a value it cannot decode
DecodeThrows(hex) == hex # "0xe301"

Decode(hex) == "ipfs-cid"

NoCall == [op |-> "none"]

\* nothing has been given back yet by the call in flight
NoReturn == [op |-> "none"]

\* no public call is in flight and the caller has taken the last result
DrIdle == drPc = "idle" /\ ret = NoReturn

VerifyResultNotOwned(call, resolution) ==
  IF ~resolution.success
    THEN [success |-> TRUE, verified |-> FALSE, domain |-> call.domain]
    ELSE [success |-> TRUE,
          verified |-> (toLowerCase(resolution.address) = toLowerCase(call.address)),
          domain |-> call.domain,
          ownerAddress |-> resolution.address]

\* verifyDomainOwnership, after the resolution came back
VerifyResult(call, resolution) ==
  IF ~resolution.success
    THEN [success |-> FALSE, verified |-> FALSE, error |-> resolution.error]
    ELSE [success |-> TRUE,
          verified |-> (toLowerCase(resolution.address) = toLowerCase(call.address)),
          domain |-> call.domain,
          ownerAddress |-> resolution.address]

StartsWithProperty(key) == Len(key) >= 2 /\ SubSeq(key, 1, 2) = <<"property", ".">>

StripProperty(key) == SubSeq(key, 3, Len(key))

JsonParseThrows(value) == value # TextSample[9]

JsonParse(value) == <<"u1", "u2">>

PropertyResultFailsOnParse(resolution) ==
  IF ~resolution.success
    THEN resolution
    ELSE IF ImagesKey \in DOMAIN resolution.metadata
              /\ JsonParseThrows(resolution.metadata[ImagesKey])
      THEN [success |-> FALSE, domain |-> resolution.domain,
            error |-> ErrMessage("Unexpected token u in JSON at position 0")]
      ELSE [success |-> TRUE, domain |-> resolution.domain, address |-> resolution.address,
            content |-> resolution.content, metadata |-> resolution.metadata,
            resolverAddress |-> resolution.resolverAddress,
            propertyMetadata |-> EmptyObject]

\* getPropertyMetadata, after the resolution came back
PropertyResult(resolution) ==
  IF ~resolution.success
    THEN resolution
    ELSE
      LET md == resolution.metadata
          propKeys == {k \in DOMAIN md : StartsWithProperty(k)}
          copied == [k \in {StripProperty(k) : k \in propKeys} |->
                       md[<<"property", ".">> \o k]]
          propertyMetadata ==
            IF ImagesKey \in DOMAIN md /\ ~JsonParseThrows(md[ImagesKey])
              THEN Put(copied, <<"images">>, JsonParse(md[ImagesKey]))
              ELSE copied
      IN [success |-> TRUE, domain |-> resolution.domain, address |-> resolution.address,
          content |-> resolution.content, metadata |-> md,
          resolverAddress |-> resolution.resolverAddress,
          propertyMetadata |-> propertyMetadata]

\* what the public call gives back once resolveDomain / resolveENSDomain has returned
Finish(call, resolution) ==
  CASE call.op = "verifyDomainOwnership" -> VerifyResult(call, resolution)
    [] call.op = "getPropertyMetadata" -> PropertyResult(resolution)
    [] OTHER -> resolution

\* no reply of the registry was seen by the request
NoReply == [kind |-> "none"]

\* the public call returns: the request's locals are dropped
DrReturn(call, resolution, log, registryReply) ==
  /\ ret' = [op |-> call.op, args |-> call, threw |-> FALSE,
             value |-> Finish(call, resolution), resolution |-> resolution,
             calls |-> log, registry |-> registryReply]
  /\ drPc' = "idle"
  /\ drCall' = NoCall
  /\ drDomain' = << >>
  /\ resolverAddress' = Null
  /\ address' = Null
  /\ content' = Null
  /\ metadata' = EmptyObject
  /\ keyIdx' = 0
  /\ drLog' = << >>

RegistryCall(domain) == [to |-> "registry", fn |-> "resolver", domain |-> domain]

ResolverCallToFixedResolver(to, fn, domain) ==
  [to |-> [cls |-> NumAddr + 1, form |-> "checksum"], fn |-> fn, domain |-> domain]

ResolverCall(to, fn, domain) == [to |-> to, fn |-> fn, domain |-> domain]

TextCall(to, domain, key) == [to |-> to, fn |-> "text", domain |-> domain, key |-> key]

EnterENSKeepsDomain(call, domain) ==
  IF HasEmptyLabel(domain)
    THEN DrReturn(call, [success |-> FALSE, domain |-> domain, error |-> ErrInvalidEnsName],
                  << >>, NoReply)
    ELSE /\ drPc' = "registry"
         /\ drCall' = call
         /\ drDomain' = domain
         /\ drLog' = <<RegistryCall(domain)>>
         /\ UNCHANGED <<resolverAddress, address, content, metadata, keyIdx, ret>>

EnterENSNeedsWallet(call, domain) ==
  LET d == IF EndsWith(domain, DotEth) THEN domain ELSE domain \o DotEth
  IN IF HasEmptyLabel(d) \/ ~walletConfigured
       THEN DrReturn(call, [success |-> FALSE, domain |-> d,
                            error |-> ErrMessage("Wallet not configured.")],
                     << >>, NoReply)
       ELSE /\ drPc' = "registry"
            /\ drCall' = call
            /\ drDomain' = d
            /\ drLog' = <<RegistryCall(d)>>
            /\ UNCHANGED <<resolverAddress, address, content, metadata, keyIdx, ret>>

\* resolveENSDomain up to its first await
EnterENS(call, domain) ==
  LET d == IF EndsWith(domain, DotEth) THEN domain ELSE domain \o DotEth
  IN IF HasEmptyLabel(d)
       THEN DrReturn(call, [success |-> FALSE, domain |-> d, error |-> ErrInvalidEnsName],
                     << >>, NoReply)
       ELSE /\ drPc' = "registry"
            /\ drCall' = call
            /\ drDomain' = d
            /\ drLog' = <<RegistryCall(d)>>
            /\ UNCHANGED <<resolverAddress, address, content, metadata, keyIdx, ret>>

\* resolveDomain: dispatch on the suffix
EnterResolveDomain(call) ==
  IF EndsWith(call.domain, DotEth)
    THEN EnterENS(call, call.domain)
    ELSE IF IsUnstoppable(call.domain)
      THEN DrReturn(call, [success |-> FALSE, domain |-> call.domain,
                           error |-> ErrUnstoppable], << >>, NoReply)
      ELSE DrReturn(call, [success |-> FALSE, domain |-> call.domain,
                           error |-> ErrUnsupported], << >>, NoReply)

resolveENSDomain(domain) ==
  /\ DrIdle
  /\ EnterENS([op |-> "resolveENSDomain", domain |-> domain], domain)
  /\ UNCHANGED <<envVars, providerVars, mgrVars, taskVars>>

resolveDomain(domain) ==
  /\ DrIdle
  /\ EnterResolveDomain([op |-> "resolveDomain", domain |-> domain])
  /\ UNCHANGED <<envVars, providerVars, mgrVars, taskVars>>

verifyDomainOwnership(domain, addr) ==
  /\ DrIdle
  /\ EnterResolveDomain([op |-> "verifyDomainOwnership", domain |-> domain, address |-> addr])
  /\ UNCHANGED <<envVars, providerVars, mgrVars, taskVars>>

getPropertyMetadata(domain) ==
  /\ DrIdle
  /\ EnterResolveDomain([op |-> "getPropertyMetadata", domain |-> domain])
  /\ UNCHANGED <<envVars, providerVars, mgrVars, taskVars>>

CatchENS(message, registryReply) ==
  DrReturn(drCall, [success |-> FALSE, domain |-> drDomain, error |-> message],
           drLog, registryReply)

NoResolverWhenNull(resolverAddr) == resolverAddr = Null

\* resolverAddress === ethers.constants.AddressZero
NoResolver(resolverAddr) == resolverAddr = AddressZero

\* the registry answers ensRegistry.resolver(node)
RegistryResponds(outcome) ==
  /\ drPc = "registry"
  /\ IF outcome.kind = "error"
       THEN CatchENS(ErrNetwork, outcome)
       ELSE IF NoResolver(outcome.value)
         THEN DrReturn(drCall, [success |-> FALSE, error |-> ErrNoResolver(drDomain)],
                       drLog, outcome)
         ELSE /\ resolverAddress' = outcome.value
              /\ drLog' = Append(drLog, ResolverCall(outcome.value, "addr", drDomain))
              /\ drPc' = "addr"
              /\ UNCHANGED <<drCall, drDomain, address, content, metadata, keyIdx, ret>>
  /\ UNCHANGED <<envVars, providerVars, mgrVars, taskVars>>

\* the resolver answers resolver.addr(node)
AddrResponds(outcome) ==
  /\ drPc = "addr"
  /\ IF outcome.kind = "error"
       THEN CatchENS(ErrNetwork, [kind |-> "value", value |-> resolverAddress])
       ELSE /\ address' = outcome.value
            /\ drLog' = Append(drLog, ResolverCall(resolverAddress, "contenthash", drDomain))
            /\ drPc' = "contenthash"
            /\ UNCHANGED <<drCall, drDomain, resolverAddress, content, metadata, keyIdx, ret>>
  /\ UNCHANGED <<envVars, providerVars, mgrVars, taskVars>>

\* the resolver answers resolver.contenthash(node); then the loop over textRecords starts
ContenthashResponds(outcome) ==
  /\ drPc = "contenthash"
  /\ content' =
       IF outcome.kind = "error" THEN Null
       ELSE IF outcome.value = "" \/ outcome.value = "0x" THEN Null
       ELSE IF DecodeThrows(outcome.value) THEN Null
       ELSE [raw |-> outcome.value, decoded |-> Decode(outcome.value)]
  /\ metadata' = EmptyObject
  /\ keyIdx' = 1
  /\ drLog' = Append(drLog, TextCall(resolverAddress, drDomain, textRecords[1]))
  /\ drPc' = "text"
  /\ UNCHANGED <<drCall, drDomain, resolverAddress, address, ret>>
  /\ UNCHANGED <<envVars, providerVars, mgrVars, taskVars>>

StoreTextAlways(md, key, outcome) ==
  IF outcome.kind = "value" THEN Put(md, key, outcome.value) ELSE md

\* if (value && value !== '') metadata[key] = value; an error is skipped
StoreText(md, key, outcome) ==
  IF outcome.kind = "value" /\ outcome.value # "" THEN Put(md, key, outcome.value) ELSE md

TextRespondsRetries(outcome) ==
  /\ drPc = "text"
  /\ IF outcome.kind = "error"
       THEN /\ drLog' = Append(drLog, TextCall(resolverAddress, drDomain, textRecords[keyIdx]))
            /\ UNCHANGED <<drPc, drCall, drDomain, resolverAddress, address, content,
                           metadata, keyIdx, ret>>
       ELSE LET md == StoreText(metadata, textRecords[keyIdx], outcome)
            IN IF keyIdx < Len(textRecords)
                 THEN /\ metadata' = md
                      /\ keyIdx' = keyIdx + 1
                      /\ drLog' = Append(drLog, TextCall(resolverAddress, drDomain,
                                                         textRecords[keyIdx + 1]))
                      /\ UNCHANGED <<drPc, drCall, drDomain, resolverAddress, address,
                                     content, ret>>
                 ELSE DrReturn(drCall,
                               [success |-> TRUE, domain |-> drDomain, address |-> address,
                                content |-> content, metadata |-> md,
                                resolverAddress |-> resolverAddress],
                               drLog, [kind |-> "value", value |-> resolverAddress])
  /\ UNCHANGED <<envVars, providerVars, mgrVars, taskVars>>

\* the resolver answers resolver.text(node, key) for the key at keyIdx
TextResponds(outcome) ==
  /\ drPc = "text"
  \* the resolver holds at most MaxTextValues non-empty text records
  /\ (outcome.kind = "value" /\ outcome.value # "") =>
       Cardinality(DOMAIN metadata) < MaxTextValues
  /\ LET key == textRecords[keyIdx]
         md == StoreText(metadata, key, outcome)
     IN IF keyIdx < Len(textRecords)
          THEN /\ metadata' = md
               /\ keyIdx' = keyIdx + 1
               /\ drLog' = Append(drLog, TextCall(resolverAddress, drDomain,
                                                  textRecords[keyIdx + 1]))
               /\ UNCHANGED <<drPc, drCall, drDomain, resolverAddress, address, content, ret>>
          ELSE DrReturn(drCall,
                        [success |-> TRUE, domain |-> drDomain, address |-> address,
                         content |-> content, metadata |-> md,
                         resolverAddress |-> resolverAddress],
                        drLog, [kind |-> "value", value |-> resolverAddress])
  /\ UNCHANGED <<envVars, providerVars, mgrVars, taskVars>>

\* ------------------------------------------------------ BlockchainProvider
ErrWallet == ErrMessage("Wallet not configured. Provide a private key in configuration.")

getWalletNeverThrows == FALSE

\* getWallet: TRUE when it throws
getWalletThrows == ~walletConfigured

ErrFailedToLoad(cause) == [msg |-> "Failed to load contract: ", cause |-> cause]

ErrInvalidContract == ErrMessage("Invalid contract address")

Ok == [ok |-> TRUE]

\* a network call issued through a contract object, with what came back
Call(handle, fn, result) == [handle |-> handle.id, fn |-> fn, result |-> result]

PaidCall(handle, fn, value, result) ==
  [handle |-> handle.id, fn |-> fn, value |-> value, result |-> result]

NoHandle == [id |-> 0]

\* a write: the call that submits the transaction, then tx.wait()
WriteCalls(outcome, submit(_)) ==
  IF outcome.kind = "callError"
    THEN <<submit(outcome.error)>>
    ELSE <<submit(Ok), Call(NoHandle, "wait",
                            IF outcome.kind = "waitError" THEN outcome.error ELSE Ok)>>

\* the error a failing call or confirmation wait reports
CallErrors == {ErrRevert}

WriteOutcomes ==
  {[kind |-> "callError", error |-> e] : e \in CallErrors} \cup
  {[kind |-> "waitError", error |-> e] : e \in CallErrors} \cup
  {[kind |-> "receipt"]}

TokenIds == 0..MaxTokenId

Prices == 1..MaxPrice

\* the token a caller names
TokenIdInput == 1

\* the other address arguments a caller passes (recipient, from, to, propertyTokenAddress)
PartyInputs == {Checksum(1), NotAnAddress}

MgrReturn(op, args, threw, value, calls, acq) ==
  ret' = [op |-> op, args |-> args, threw |-> threw, value |-> value,
          calls |-> calls, acq |-> acq]

NoAcq == [tried |-> FALSE]

\* ------------------------------------------------------------ TokenManager
AbiFor(tokenType) == IF tokenType = "ERC1155" THEN "ERC1155" ELSE "ERC721"

TMLoadWithoutStore(contractAddress, tokenType) ==
  IF ~isAddress(contractAddress)
    THEN [ok |-> FALSE, error |-> ErrInvalidContract, contracts |-> contracts, created |-> FALSE]
    ELSE IF getWalletThrows
      THEN [ok |-> FALSE, error |-> ErrFailedToLoad(ErrWallet), contracts |-> contracts,
            created |-> FALSE]
      ELSE [ok |-> TRUE, created |-> TRUE, contracts |-> contracts,
            handle |-> [id |-> nextHandle, address |-> contractAddress,
                        abi |-> AbiFor(tokenType)]]

\* TokenManager.loadContract: what it throws or returns, and the cache it leaves
TMLoad(contractAddress, tokenType) ==
  IF ~isAddress(contractAddress)
    THEN [ok |-> FALSE, error |-> ErrInvalidContract, contracts |-> contracts, created |-> FALSE]
    ELSE IF getWalletThrows
      THEN [ok |-> FALSE, error |-> ErrFailedToLoad(ErrWallet), contracts |-> contracts,
            created |-> FALSE]
      ELSE LET handle == [id |-> nextHandle, address |-> contractAddress,
                          abi |-> AbiFor(tokenType)]
           IN [ok |-> TRUE, handle |-> handle, created |-> TRUE,
               contracts |-> Put(contracts, contractAddress, handle)]

TMGetOrLoadRebinds(contractAddress, tokenType) ==
  IF contractAddress \in DOMAIN contracts /\ contracts[contractAddress].abi = AbiFor(tokenType)
    THEN [ok |-> TRUE, handle |-> contracts[contractAddress], created |-> FALSE,
          contracts |-> contracts]
    ELSE TMLoad(contractAddress, tokenType)

TMGetOrLoadAlwaysLoads(contractAddress, tokenType) == TMLoad(contractAddress, tokenType)

\* this.contracts[contractAddress] || this.loadContract(contractAddress, tokenType)
TMGetOrLoad(contractAddress, tokenType) ==
  IF contractAddress \in DOMAIN contracts
    THEN [ok |-> TRUE, handle |-> contracts[contractAddress], created |-> FALSE,
          contracts |-> contracts]
    ELSE TMLoad(contractAddress, tokenType)

AcqOf(contractAddress, got) ==
  IF got.ok
    THEN [tried |-> TRUE, ok |-> TRUE, address |-> contractAddress, handle |-> got.handle,
          created |-> got.created]
    ELSE [tried |-> TRUE, ok |-> FALSE, address |-> contractAddress]

\* the contract objects created so far stay below the bound
HandleBound(got) == got.created => nextHandle <= MaxHandles

TMCommit(got) ==
  /\ contracts' = got.contracts
  /\ nextHandle' = IF got.created THEN nextHandle + 1 ELSE nextHandle
  /\ UNCHANGED <<envVars, providerVars, deployedContracts, chainDeployed, drVars, taskVars>>

TM_loadContract(contractAddress, tokenType) ==
  LET got == TMLoad(contractAddress, tokenType)
      args == [contractAddress |-> contractAddress, tokenType |-> tokenType]
  IN /\ DrIdle
     /\ HandleBound(got)
     /\ TMCommit(got)
     /\ IF got.ok
          THEN MgrReturn("TM.loadContract", args, FALSE, got.handle, << >>, NoAcq)
          ELSE MgrReturn("TM.loadContract", args, TRUE, got.error, << >>, NoAcq)

TokenURIInput == "https://x/meta.json"

PropertyDataInput == [beds |-> 3]

\* outcomes of contract.mint followed by tx.wait, with the Transfer event of the receipt
MintOutcomes ==
  {o \in WriteOutcomes : o.kind # "receipt"} \cup
  {[kind |-> "receipt", transfer |-> FALSE]} \cup
  {[kind |-> "receipt", transfer |-> TRUE, tokenId |-> t] : t \in TokenIds}

TxHash == "0xhash"

mintPropertyToken(contractAddress, recipient, outcome) ==
  LET got == TMGetOrLoad(contractAddress, "ERC721")
      args == [contractAddress |-> contractAddress, recipient |-> recipient]
      mintMetadata == [propertyData |-> PropertyDataInput, tokenURI |-> TokenURIInput]
  IN /\ DrIdle
     /\ HandleBound(got)
     /\ TMCommit(got)
     /\ IF ~got.ok
          THEN MgrReturn("mintPropertyToken", args, FALSE,
                         [success |-> FALSE, error |-> got.error, details |-> got.error],
                         << >>, AcqOf(contractAddress, got))
          ELSE LET submit(result) == Call(got.handle, "mint", result)
                   calls == WriteCalls(outcome, submit)
               IN IF outcome.kind # "receipt"
                    THEN MgrReturn("mintPropertyToken", args, FALSE,
                                   [success |-> FALSE, error |-> outcome.error,
                                    details |-> outcome.error],
                                   calls, AcqOf(contractAddress, got))
                    ELSE MgrReturn("mintPropertyToken", args, FALSE,
                                   [success |-> TRUE,
                                    tokenId |-> IF outcome.transfer
                                                  THEN [str |-> outcome.tokenId] ELSE Null,
                                    transactionHash |-> TxHash,
                                    metadata |-> mintMetadata],
                                   calls, AcqOf(contractAddress, got))

createFractionalTokens(contractAddress, tokenId, fractions, outcome) ==
  LET got == TMGetOrLoad(contractAddress, "ERC1155")
      args == [contractAddress |-> contractAddress, tokenId |-> tokenId,
               fractions |-> fractions]
  IN /\ DrIdle
     /\ HandleBound(got)
     /\ TMCommit(got)
     /\ IF ~got.ok
          THEN MgrReturn("createFractionalTokens", args, FALSE,
                         [success |-> FALSE, error |-> got.error],
                         << >>, AcqOf(contractAddress, got))
          ELSE IF getWalletThrows
            THEN MgrReturn("createFractionalTokens", args, FALSE,
                           [success |-> FALSE, error |-> ErrWallet],
                           << >>, AcqOf(contractAddress, got))
            ELSE LET submit(result) == Call(got.handle, "mint", result)
                   calls == WriteCalls(outcome, submit)
                 IN IF outcome.kind # "receipt"
                      THEN MgrReturn("createFractionalTokens", args, FALSE,
                                     [success |-> FALSE, error |-> outcome.error],
                                     calls, AcqOf(contractAddress, got))
                      ELSE MgrReturn("createFractionalTokens", args, FALSE,
                                     [success |-> TRUE, tokenId |-> tokenId,
                                      fractions |-> fractions,
                                      transactionHash |-> TxHash],
                                     calls, AcqOf(contractAddress, got))

\* outcomes of the reads of getTokenMetadata: tokenURI, fetch + json, ownerOf
OwnerOutcomes ==
  {[kind |-> "error"]} \cup {[kind |-> "value", value |-> Checksum(c)] : c \in AddrClasses}

MetadataOutcomes ==
  {[uri |-> "error"]} \cup
  {[uri |-> "ipfs://hash", owner |-> o] : o \in OwnerOutcomes} \cup
  {[uri |-> "https://x/meta.json", fetch |-> f] : f \in {"fetchError", "jsonError"}} \cup
  {[uri |-> "https://x/meta.json", fetch |-> "ok", owner |-> o] : o \in OwnerOutcomes}

IsHttp(uri) == uri = "https://x/meta.json"

ReadResult(failed) == IF failed THEN ErrNetwork ELSE Ok

getTokenMetadata(contractAddress, tokenId, outcome) ==
  LET got == TMGetOrLoad(contractAddress, "ERC721")
      args == [contractAddress |-> contractAddress, tokenId |-> tokenId]
      fail(error, calls) ==
        MgrReturn("getTokenMetadata", args, FALSE, [success |-> FALSE, error |-> error],
                  calls, AcqOf(contractAddress, got))
  IN /\ DrIdle
     /\ HandleBound(got)
     /\ TMCommit(got)
     /\ IF ~got.ok
          THEN fail(got.error, << >>)
          ELSE LET uriCall == Call(got.handle, "tokenURI", ReadResult(outcome.uri = "error"))
                   fetchCall(result) == Call(NoHandle, "fetch", result)
               IN IF outcome.uri = "error"
                    THEN fail(ErrNetwork, <<uriCall>>)
                    ELSE IF IsHttp(outcome.uri) /\ outcome.fetch # "ok"
                      THEN fail(ErrMessage(outcome.fetch),
                                <<uriCall, fetchCall(ErrMessage(outcome.fetch))>>)
                      ELSE LET ownerCall == Call(got.handle, "ownerOf",
                                                 ReadResult(outcome.owner.kind = "error"))
                               reads == IF IsHttp(outcome.uri)
                                          THEN <<uriCall, fetchCall(Ok), ownerCall>>
                                          ELSE <<uriCall, ownerCall>>
                           IN IF outcome.owner.kind = "error"
                                THEN fail(ErrNetwork, reads)
                                ELSE MgrReturn("getTokenMetadata", args, FALSE,
                                       [tokenId |-> tokenId, tokenURI |-> outcome.uri,
                                        metadata |-> IF IsHttp(outcome.uri)
                                                       THEN [fetched |-> TRUE] ELSE Null,
                                        owner |-> outcome.owner.value],
                                       reads, AcqOf(contractAddress, got))

transferToken(contractAddress, tokenId, from, to, outcome) ==
  LET got == TMGetOrLoad(contractAddress, "ERC721")
      args == [contractAddress |-> contractAddress, tokenId |-> tokenId,
               from |-> from, to |-> to]
  IN /\ DrIdle
     /\ HandleBound(got)
     /\ TMCommit(got)
     /\ IF ~got.ok
          THEN MgrReturn("transferToken", args, FALSE,
                         [success |-> FALSE, error |-> got.error],
                         << >>, AcqOf(contractAddress, got))
          ELSE LET submit(result) == Call(got.handle, "transferFrom", result)
                   calls == WriteCalls(outcome, submit)
               IN IF outcome.kind # "receipt"
                    THEN MgrReturn("transferToken", args, FALSE,
                                   [success |-> FALSE, error |-> outcome.error],
                                   calls, AcqOf(contractAddress, got))
                    ELSE MgrReturn("transferToken", args, FALSE,
                                   [success |-> TRUE, tokenId |-> tokenId, from |-> from,
                                    to |-> to, transactionHash |-> TxHash],
                                   calls, AcqOf(contractAddress, got))

\* ---------------------------------------------------- SmartContractService
MarketplaceAbi == "PropertyMarketplace"

FractionalAbi == "FractionalRegistry"

\* SmartContractService.loadContract: what it throws or returns, and the registry it leaves
SCLoad(addr, abi) ==
  IF ~isAddress(addr)
    THEN [ok |-> FALSE, error |-> ErrInvalidContract, deployedContracts |-> deployedContracts,
          created |-> FALSE]
    ELSE IF getWalletThrows
      THEN [ok |-> FALSE, error |-> ErrFailedToLoad(ErrWallet),
            deployedContracts |-> deployedContracts, created |-> FALSE]
      ELSE LET contract == [id |-> nextHandle, address |-> addr, abi |-> abi]
           IN [ok |-> TRUE, handle |-> contract, created |-> TRUE,
               deployedContracts |->
                 Put(deployedContracts, addr,
                     [contract |-> contract, address |-> addr, type |-> "custom"])]

SCGetOrLoadAlwaysLoads(marketplaceAddress) == SCLoad(marketplaceAddress, MarketplaceAbi)

\* this.deployedContracts[marketplaceAddress]?.contract || this.loadContract(...)
SCGetOrLoad(marketplaceAddress) ==
  IF marketplaceAddress \in DOMAIN deployedContracts
    THEN [ok |-> TRUE, handle |-> deployedContracts[marketplaceAddress].contract,
          created |-> FALSE, deployedContracts |-> deployedContracts]
    ELSE SCLoad(marketplaceAddress, MarketplaceAbi)

SCCommit(got) ==
  /\ deployedContracts' = got.deployedContracts
  /\ nextHandle' = IF got.created THEN nextHandle + 1 ELSE nextHandle
  /\ UNCHANGED <<envVars, providerVars, contracts, chainDeployed, drVars, taskVars>>

SC_loadContract(addr, abi) ==
  LET got == SCLoad(addr, abi)
      args == [address |-> addr, abi |-> abi]
  IN /\ DrIdle
     /\ HandleBound(got)
     /\ SCCommit(got)
     /\ IF got.ok
          THEN MgrReturn("SC.loadContract", args, FALSE, got.handle, << >>, NoAcq)
          ELSE MgrReturn("SC.loadContract", args, TRUE, got.error, << >>, NoAcq)

\* outcomes of contractFactory.deploy followed by contract.deployed(): deploy
\* fails, or it gives a contract object with its address and the wait for the
\* contract to go live fails, or the contract goes live; the chain gives a
\* contract that goes live an address no earlier deployment has
DeployOutcomes ==
  {[kind |-> "deployError", error |-> e] : e \in CallErrors} \cup
  {[kind |-> "deployedError", error |-> e, cls |-> c] : e \in CallErrors, c \in AddrClasses} \cup
  {[kind |-> "live", cls |-> c] : c \in AddrClasses \ chainDeployed}

DeployThrowsOnlyAtCreation(outcome) == outcome.kind = "deployError"

\* the deployment leaves the try block before the registry is written
DeployThrows(outcome) == outcome.kind # "live"

DeployCalls(outcome) ==
  IF outcome.kind = "deployError"
    THEN <<Call(NoHandle, "deploy", outcome.error)>>
    ELSE <<Call(NoHandle, "deploy", Ok),
           Call(NoHandle, "deployed",
                IF outcome.kind = "deployedError" THEN outcome.error ELSE Ok)>>

\* the common part of the two deployments, after the factory has been built
Deploy(op, args, abi, type, extra, success(_), outcome) ==
  IF DeployThrows(outcome)
    THEN /\ MgrReturn(op, args, FALSE, [success |-> FALSE, error |-> outcome.error],
                      DeployCalls(outcome), NoAcq)
         /\ UNCHANGED <<mgrVars>>
    ELSE LET addr == Checksum(outcome.cls)
             contract == [id |-> nextHandle, address |-> addr, abi |-> abi]
             record == [contract |-> contract, address |-> addr, type |-> type]
         IN /\ nextHandle <= MaxHandles
            /\ deployedContracts' =
                 Put(deployedContracts, addr,
                     IF extra = Null THEN record
                     ELSE [contract |-> contract, address |-> addr, type |-> type,
                           propertyTokenAddress |-> extra])
            /\ nextHandle' = nextHandle + 1
            /\ chainDeployed' = chainDeployed \cup {outcome.cls}
            /\ UNCHANGED contracts
            /\ MgrReturn(op, args, FALSE, success(addr), DeployCalls(outcome), NoAcq)

NameInput == "Parcel"

SymbolInput == "PRCL"

deployTokenizationContract(outcome) ==
  LET op == "deployTokenizationContract"
      args == [name |-> NameInput, symbol |-> SymbolInput]
      success(addr) == [success |-> TRUE, contractAddress |-> addr, name |-> NameInput,
                        symbol |-> SymbolInput, transactionHash |-> TxHash]
  IN /\ DrIdle
     /\ IF getWalletThrows
          THEN /\ MgrReturn(op, args, FALSE, [success |-> FALSE, error |-> ErrWallet],
                            << >>, NoAcq)
               /\ UNCHANGED <<mgrVars>>
          ELSE Deploy(op, args, MarketplaceAbi, "PropertyTokenization", Null, success, outcome)
     /\ UNCHANGED <<envVars, providerVars, drVars, taskVars>>

ErrInvalidPropertyToken == ErrMessage("Invalid property token address")

deployFractionalContract(propertyTokenAddress, outcome) ==
  LET op == "deployFractionalContract"
      args == [propertyTokenAddress |-> propertyTokenAddress]
      success(addr) == [success |-> TRUE, contractAddress |-> addr,
                        propertyTokenAddress |-> propertyTokenAddress,
                        transactionHash |-> TxHash]
      fail(error) ==
        /\ MgrReturn(op, args, FALSE, [success |-> FALSE, error |-> error], << >>, NoAcq)
        /\ UNCHANGED <<mgrVars>>
  IN /\ DrIdle
     /\ IF ~isAddress(propertyTokenAddress)
          THEN fail(ErrInvalidPropertyToken)
          ELSE IF getWalletThrows
            THEN fail(ErrWallet)
            ELSE Deploy(op, args, FractionalAbi, "FractionalOwnership",
                        propertyTokenAddress, success, outcome)
     /\ UNCHANGED <<envVars, providerVars, drVars, taskVars>>

listPropertyForSale(marketplaceAddress, tokenId, price, outcome) ==
  LET got == SCGetOrLoad(marketplaceAddress)
      op == "listPropertyForSale"
      args == [marketplaceAddress |-> marketplaceAddress, tokenId |-> tokenId,
               price |-> price]
  IN /\ DrIdle
     /\ HandleBound(got)
     /\ SCCommit(got)
     /\ IF ~got.ok
          THEN MgrReturn(op, args, FALSE, [success |-> FALSE, error |-> got.error],
                         << >>, AcqOf(marketplaceAddress, got))
          ELSE LET submit(result) == Call(got.handle, "listProperty", result)
                   calls == WriteCalls(outcome, submit)
               IN IF outcome.kind # "receipt"
                    THEN MgrReturn(op, args, FALSE,
                                   [success |-> FALSE, error |-> outcome.error],
                                   calls, AcqOf(marketplaceAddress, got))
                    ELSE MgrReturn(op, args, FALSE,
                                   [success |-> TRUE, tokenId |-> tokenId, price |-> price,
                                    transactionHash |-> TxHash],
                                   calls, AcqOf(marketplaceAddress, got))

\* the caller left the shares argument out
Undefined == -1

ShareInputs == {Undefined} \cup (1..MaxShares)

\* shares = 1 in the parameter list
DefaultShares(shares) == IF shares = Undefined THEN 1 ELSE shares

MulAdds(price, shares) == price + shares

\* listing.price.mul(shares): BigNumber arithmetic is exact
Mul(price, shares) == price * shares

\* outcomes of contract.getPropertyListing(tokenId)
ListingOutcomes ==
  {[kind |-> "error"]} \cup {[kind |-> "value", price |-> p] : p \in Prices}

buyProperty(marketplaceAddress, tokenId, sharesArg, listing, outcome) ==
  LET got == SCGetOrLoad(marketplaceAddress)
      op == "buyProperty"
      shares == DefaultShares(sharesArg)
      args == [marketplaceAddress |-> marketplaceAddress, tokenId |-> tokenId,
               shares |-> sharesArg]
      fail(error, calls) ==
        MgrReturn(op, args, FALSE, [success |-> FALSE, error |-> error],
                  calls, AcqOf(marketplaceAddress, got))
  IN /\ DrIdle
     /\ HandleBound(got)
     /\ SCCommit(got)
     /\ IF ~got.ok
          THEN fail(got.error, << >>)
          ELSE LET read == Call(got.handle, "getPropertyListing", listing)
               IN IF listing.kind = "error"
                    THEN fail(ErrNetwork, <<read>>)
                    ELSE LET price == Mul(listing.price, shares)
                             buy(result) == PaidCall(got.handle, "purchaseProperty", price,
                                                     result)
                             calls == <<read>> \o WriteCalls(outcome, buy)
                         IN IF outcome.kind # "receipt"
                              THEN fail(outcome.error, calls)
                              ELSE MgrReturn(op, args, FALSE,
                                     [success |-> TRUE, tokenId |-> tokenId,
                                      shares |-> shares, price |-> [str |-> price],
                                      transactionHash |-> TxHash],
                                     calls, AcqOf(marketplaceAddress, got))

\* the projection getDeployedContracts returns
DeployedView ==
  [a \in DOMAIN deployedContracts |->
     IF Has(deployedContracts[a], "propertyTokenAddress")
       THEN [address |-> a, type |-> deployedContracts[a].type,
             propertyTokenAddress |-> deployedContracts[a].propertyTokenAddress]
       ELSE [address |-> a, type |-> deployedContracts[a].type]]

getDeployedContracts ==
  /\ DrIdle
  /\ MgrReturn("getDeployedContracts", [none |-> TRUE], FALSE, DeployedView, << >>, NoAcq)
  /\ UNCHANGED <<envVars, providerVars, mgrVars, drVars, taskVars>>

ValidKey == [key |-> "valid"]

InvalidKey == [key |-> "invalid"]

\* initializeBlockchain: the default configuration, with PRIVATE_KEY set or not
DefaultConfig(withKey) ==
  [network |-> "mainnet", useInfura |-> TRUE, rpcUrl |-> Null,
   privateKey |-> IF withKey THEN ValidKey ELSE Null]

\* the configurations a caller passes
Configs ==
  [network : {"mainnet", "nonet"}, useInfura : BOOLEAN,
   rpcUrl : {Null, [url |-> "http://node"]}, privateKey : {Null, ValidKey, InvalidKey}]

\* what the constructors of the read client and of the Web3 client do
ClientOutcomes == {"providerThrows", "web3Throws", "built"}

\* new ethers.Wallet throws on a key that is not a private key
WalletThrows(key) == key = InvalidKey

ReadClient(cfg) ==
  IF cfg.useInfura THEN [kind |-> "InfuraProvider"]
  ELSE IF cfg.rpcUrl # Null THEN [kind |-> "JsonRpcProvider"]
  ELSE [kind |-> "DefaultProvider"]

Web3Client(cfg) ==
  IF cfg.rpcUrl # Null THEN [endpoint |-> "rpcUrl"] ELSE [endpoint |-> "infura"]

initializeConnectsBeforeWallet(cfg, outcome) ==
  IF outcome = "providerThrows"
    THEN [provider |-> Null, web3 |-> Null, wallet |-> FALSE, connected |-> FALSE]
    ELSE IF outcome = "web3Throws"
      THEN [provider |-> ReadClient(cfg), web3 |-> Null, wallet |-> FALSE,
            connected |-> FALSE]
      ELSE [provider |-> ReadClient(cfg), web3 |-> Web3Client(cfg),
            wallet |-> (cfg.privateKey # Null /\ ~WalletThrows(cfg.privateKey)),
            connected |-> TRUE]

\* BlockchainProvider.initialize: the fields it leaves; a step that throws
\* ends the try block, and the catch sets connected to false
initialize(cfg, outcome) ==
  IF outcome = "providerThrows"
    THEN [provider |-> Null, web3 |-> Null, wallet |-> FALSE, connected |-> FALSE]
    ELSE IF outcome = "web3Throws"
      THEN [provider |-> ReadClient(cfg), web3 |-> Null, wallet |-> FALSE,
            connected |-> FALSE]
      ELSE IF cfg.privateKey # Null /\ WalletThrows(cfg.privateKey)
        THEN [provider |-> ReadClient(cfg), web3 |-> Web3Client(cfg), wallet |-> FALSE,
              connected |-> FALSE]
        ELSE [provider |-> ReadClient(cfg), web3 |-> Web3Client(cfg),
              wallet |-> cfg.privateKey # Null, connected |-> TRUE]

\* the provider is constructed and no call is in flight
BpReady == bpPc = "ready" /\ DrIdle

\* new BlockchainProvider(config): the constructor, which calls initialize
BlockchainProvider(cfg, outcome) ==
  LET made == initialize(cfg, outcome)
  IN /\ bpPc = "new"
     /\ DrIdle
     /\ bpPc' = "ready"
     /\ config' = cfg
     /\ provider' = made.provider
     /\ web3' = made.web3
     /\ walletConfigured' = made.wallet
     /\ connected' = made.connected
     /\ MgrReturn("BlockchainProvider", [config |-> cfg], FALSE, [constructed |-> TRUE],
                  << >>, NoAcq)
     /\ UNCHANGED <<envVars, mgrVars, drVars, taskVars>>

isConnected ==
  /\ BpReady
  /\ MgrReturn("isConnected", [none |-> TRUE], FALSE, connected, << >>, NoAcq)
  /\ UNCHANGED <<envVars, providerVars, mgrVars, drVars, taskVars>>

getProvider ==
  /\ BpReady
  /\ MgrReturn("getProvider", [none |-> TRUE], FALSE, provider, << >>, NoAcq)
  /\ UNCHANGED <<envVars, providerVars, mgrVars, drVars, taskVars>>

getWeb3 ==
  /\ BpReady
  /\ MgrReturn("getWeb3", [none |-> TRUE], FALSE, web3, << >>, NoAcq)
  /\ UNCHANGED <<envVars, providerVars, mgrVars, drVars, taskVars>>

ErrNullProvider == ErrMessage("Cannot read properties of null (reading 'getGasPrice')")

\* outcomes of a call to the node: it fails or it answers
NodeOutcomes == {"error", "value"}

\* getGasPrice: this.provider.getGasPrice(), with no catch around it
getGasPrice(outcome) ==
  /\ BpReady
  /\ IF provider = Null
       THEN MgrReturn("getGasPrice", [none |-> TRUE], TRUE, ErrNullProvider, << >>, NoAcq)
       ELSE IF outcome = "error"
         THEN MgrReturn("getGasPrice", [none |-> TRUE], TRUE, ErrNetwork,
                        <<Call(NoHandle, "getGasPrice", ErrNetwork)>>, NoAcq)
         ELSE MgrReturn("getGasPrice", [none |-> TRUE], FALSE, [gwei |-> 1],
                        <<Call(NoHandle, "getGasPrice", Ok)>>, NoAcq)
  /\ UNCHANGED <<envVars, providerVars, mgrVars, drVars, taskVars>>

MessageInput == "hello"

\* signMessage: getWallet().signMessage(message), which signs locally
signMessage ==
  /\ BpReady
  /\ IF getWalletThrows
       THEN MgrReturn("signMessage", [message |-> MessageInput], TRUE, ErrWallet, << >>, NoAcq)
       ELSE MgrReturn("signMessage", [message |-> MessageInput], FALSE,
                      [signature |-> "0xsig"], << >>, NoAcq)
  /\ UNCHANGED <<envVars, providerVars, mgrVars, drVars, taskVars>>

\* sendTransaction: getWallet, wallet.sendTransaction, tx.wait, with no catch
sendTransaction(outcome) ==
  LET args == [transactionConfig |-> [to |-> Checksum(1)]]
      submit(result) == Call(NoHandle, "sendTransaction", result)
      calls == WriteCalls(outcome, submit)
  IN /\ BpReady
     /\ IF getWalletThrows
          THEN MgrReturn("sendTransaction", args, TRUE, ErrWallet, << >>, NoAcq)
          ELSE IF outcome.kind # "receipt"
            THEN MgrReturn("sendTransaction", args, TRUE, outcome.error, calls, NoAcq)
            ELSE MgrReturn("sendTransaction", args, FALSE, [transactionHash |-> TxHash],
                           calls, NoAcq)
     /\ UNCHANGED <<envVars, providerVars, mgrVars, drVars, taskVars>>

\* BlockchainProvider.getWallet called by a user of the provider
getWallet ==
  /\ BpReady
  /\ IF getWalletThrows
       THEN MgrReturn("getWallet", [none |-> TRUE], TRUE, ErrWallet, << >>, NoAcq)
       ELSE MgrReturn("getWallet", [none |-> TRUE], FALSE, [wallet |-> TRUE], << >>, NoAcq)
  /\ UNCHANGED <<envVars, providerVars, mgrVars, drVars, taskVars>>

\* the operations that get or load a contract object, by manager
TMAcquiring == {"mintPropertyToken", "createFractionalTokens", "getTokenMetadata",
                "transferToken"}

SCAcquiring == {"listPropertyForSale", "buyProperty"}

\* the positions of the calls of a function in a call log
CallsTo(calls, fn) == {i \in 1..Len(calls) : calls[i].fn = fn}

\* ------------------------------------- manager calls suspended at an await
\* The handlers are async functions: each runs without interruption from its
\* start to its first await and between two awaits, and other calls run while
\* it is suspended.
TaskIds == 1..NumTasks

Pending == [pending |-> TRUE]

\* amount is the number the call was given: fractions, price or shares
NoTask == [pc |-> "idle", op |-> "none", address |-> Null, amount |-> 0, acq |-> NoAcq,
           calls |-> << >>]

\* the answer to the call the task awaits is recorded in its log
Answered(calls, result) == [calls EXCEPT ![Len(calls)].result = result]

\* the function the handler calls first, after it has its contract object
FirstFn(op) ==
  CASE op \in {"mintPropertyToken", "createFractionalTokens"} -> "mint"
    [] op = "getTokenMetadata" -> "tokenURI"
    [] op = "transferToken" -> "transferFrom"
    [] op = "listPropertyForSale" -> "listProperty"
    [] op = "buyProperty" -> "getPropertyListing"

\* the error a failing awaited call throws into the handler's catch
AwaitError(fn) ==
  CASE fn \in {"tokenURI", "ownerOf", "getPropertyListing"} -> ErrNetwork
    [] fn = "fetch" -> ErrMessage("fetchError")
    [] fn = "json" -> ErrMessage("jsonError")
    [] OTHER -> ErrRevert

\* what the awaited call can give back
AwaitOutcomes(task) ==
  LET fn == task.calls[Len(task.calls)].fn
  IN {[kind |-> "error"]} \cup
     (CASE fn = "tokenURI" ->
             {[kind |-> "ok", uri |-> u] : u \in {"ipfs://hash", "https://x/meta.json"}}
        [] fn = "ownerOf" -> {[kind |-> "ok", owner |-> Checksum(c)] : c \in AddrClasses}
        [] fn = "getPropertyListing" ->
             LET listing == task.calls[Len(task.calls)].result
             IN IF listing = Pending THEN {} ELSE {[kind |-> "ok", price |-> listing.price]}
        [] fn = "wait" /\ task.op = "mintPropertyToken" ->
             {[kind |-> "ok", transfer |-> FALSE]} \cup
             {[kind |-> "ok", transfer |-> TRUE, tokenId |-> t] : t \in TokenIds}
        [] OTHER -> {[kind |-> "ok"]})

\* the other addresses a suspended call was given
PartyInput == Checksum(1)

\* the arguments of the call a task runs
TaskArgs(task) ==
  CASE task.op = "mintPropertyToken" ->
         [contractAddress |-> task.address, recipient |-> PartyInput]
    [] task.op = "createFractionalTokens" ->
         [contractAddress |-> task.address, tokenId |-> TokenIdInput,
          fractions |-> task.amount]
    [] task.op = "getTokenMetadata" ->
         [contractAddress |-> task.address, tokenId |-> TokenIdInput]
    [] task.op = "transferToken" ->
         [contractAddress |-> task.address, tokenId |-> TokenIdInput,
          from |-> PartyInput, to |-> PartyInput]
    [] task.op = "listPropertyForSale" ->
         [marketplaceAddress |-> task.address, tokenId |-> TokenIdInput,
          price |-> task.amount]
    [] task.op = "buyProperty" ->
         [marketplaceAddress |-> task.address, tokenId |-> TokenIdInput,
          shares |-> task.amount]

\* the handler's failure result
TaskFailure(task, error) ==
  IF task.op = "mintPropertyToken"
    THEN [success |-> FALSE, error |-> error, details |-> error]
    ELSE [success |-> FALSE, error |-> error]

\* the handler's return value once its last await has resolved
TaskResult(task, outcome) ==
  CASE task.op = "mintPropertyToken" ->
         [success |-> TRUE,
          tokenId |-> IF outcome.transfer THEN [str |-> outcome.tokenId] ELSE Null,
          transactionHash |-> TxHash,
          metadata |-> [propertyData |-> PropertyDataInput, tokenURI |-> TokenURIInput]]
    [] task.op = "createFractionalTokens" ->
         [success |-> TRUE, tokenId |-> TokenIdInput, fractions |-> task.amount,
          transactionHash |-> TxHash]
    [] task.op = "getTokenMetadata" ->
         [tokenId |-> TokenIdInput, owner |-> outcome.owner,
          tokenURI |-> IF CallsTo(task.calls, "fetch") = {}
                         THEN "ipfs://hash" ELSE "https://x/meta.json",
          metadata |-> IF CallsTo(task.calls, "fetch") = {} THEN Null ELSE [fetched |-> TRUE]]
    [] task.op = "transferToken" ->
         [success |-> TRUE, tokenId |-> TokenIdInput, from |-> PartyInput,
          to |-> PartyInput, transactionHash |-> TxHash]
    [] task.op = "listPropertyForSale" ->
         [success |-> TRUE, tokenId |-> TokenIdInput, price |-> task.amount,
          transactionHash |-> TxHash]
    [] task.op = "buyProperty" ->
         [success |-> TRUE, tokenId |-> TokenIdInput, shares |-> task.amount,
          price |-> [str |-> task.calls[2].value], transactionHash |-> TxHash]

\* the handler returns: its result goes to its caller and the task ends
TaskEnds(t, task, value, calls) ==
  /\ tasks' = [tasks EXCEPT ![t] = NoTask]
  /\ MgrReturn(task.op, TaskArgs(task), FALSE, value, calls, task.acq)

\* the handler runs from its start to its first await: get-or-load, then the first call
TaskStarts(t, op, contractAddress, amount) ==
  LET got == IF op \in TMAcquiring
               THEN TMGetOrLoad(contractAddress,
                                IF op = "createFractionalTokens" THEN "ERC1155" ELSE "ERC721")
               ELSE SCGetOrLoad(contractAddress)
      started == [pc |-> "await", op |-> op, address |-> contractAddress, amount |-> amount,
                  acq |-> AcqOf(contractAddress, got), calls |-> << >>]
  IN /\ ret = NoReturn
     /\ tasks[t].pc = "idle"
     /\ HandleBound(got)
     /\ contracts' = IF op \in TMAcquiring THEN got.contracts ELSE contracts
     /\ deployedContracts' = IF op \in SCAcquiring THEN got.deployedContracts
                             ELSE deployedContracts
     /\ nextHandle' = IF got.created THEN nextHandle + 1 ELSE nextHandle
     /\ IF ~got.ok
          THEN TaskEnds(t, started, TaskFailure(started, got.error), << >>)
          ELSE IF op = "createFractionalTokens" /\ getWalletThrows
            THEN TaskEnds(t, started, TaskFailure(started, ErrWallet), << >>)
            ELSE /\ tasks' = [tasks EXCEPT ![t] =
                      [started EXCEPT !.calls = <<Call(got.handle, FirstFn(op), Pending)>>]]
                 /\ UNCHANGED ret
     /\ UNCHANGED <<envVars, providerVars, chainDeployed, chainPrice, drVars>>

\* the node serves the listing read of a suspended buyProperty from the price
\* the contract holds then; the answer reaches the handler when it resumes
ListingServed(t) ==
  LET task == tasks[t]
  IN /\ ret = NoReturn
     /\ task.pc = "await"
     /\ task.calls[Len(task.calls)].fn = "getPropertyListing"
     /\ task.calls[Len(task.calls)].result = Pending
     /\ tasks' = [tasks EXCEPT ![t].calls =
                    Answered(task.calls, [kind |-> "value", price |-> chainPrice])]
     /\ UNCHANGED <<envVars, providerVars, mgrVars, drVars, chainPrice, ret>>

ListingPriceReread(listing) == chainPrice

\* listing.price, of the listing the read gave back
ListingPrice(listing) == listing.price

\* the awaited call settles and the handler runs on to its next await or to its return
TaskResumes(t, outcome) ==
  LET task == tasks[t]
      fn == task.calls[Len(task.calls)].fn
      contract == task.acq.handle
      answered == IF fn = "getPropertyListing" THEN task.calls
                  ELSE Answered(task.calls, Ok)
      next(call) == /\ tasks' = [tasks EXCEPT ![t].calls = Append(answered, call)]
                    /\ UNCHANGED ret
  IN /\ ret = NoReturn
     /\ task.pc = "await"
     /\ IF outcome.kind = "error"
          THEN TaskEnds(t, task, TaskFailure(task, AwaitError(fn)),
                        Answered(task.calls, AwaitError(fn)))
          ELSE CASE fn \in {"mint", "transferFrom", "listProperty", "purchaseProperty"} ->
                      next(Call(NoHandle, "wait", Pending))
                 [] fn = "getPropertyListing" ->
                      next(PaidCall(contract, "purchaseProperty",
                                    Mul(ListingPrice(outcome), task.amount), Pending))
                 [] fn = "tokenURI" ->
                      IF IsHttp(outcome.uri)
                        THEN next(Call(NoHandle, "fetch", Pending))
                        ELSE next(Call(contract, "ownerOf", Pending))
                 [] fn = "fetch" -> next(Call(NoHandle, "json", Pending))
                 [] fn = "json" -> next(Call(contract, "ownerOf", Pending))
                 [] fn \in {"wait", "ownerOf"} ->
                      TaskEnds(t, task, TaskResult(task, outcome), answered)
     /\ UNCHANGED <<envVars, providerVars, mgrVars, drVars, chainPrice>>

\* the seller re-lists the token at another price
PriceChanges(price) ==
  /\ ret = NoReturn
  /\ price # chainPrice
  /\ chainPrice' = price
  /\ UNCHANGED <<envVars, providerVars, mgrVars, drVars, tasks, ret>>

\* the number a caller passes with each operation: fractions, price or shares
AmountInputs(op) ==
  CASE op = "createFractionalTokens" -> {MaxShares}
    [] op = "listPropertyForSale" -> {MaxPrice}
    [] op = "buyProperty" -> {DefaultShares(n) : n \in ShareInputs}
    [] OTHER -> {0}

\* the contract address concurrent callers pass
TaskAddresses == {Checksum(1), NotAnAddress}

\* the caller takes the result of the call that completed and carries on
CallerContinues ==
  /\ ret # NoReturn
  /\ ret' = NoReturn
  /\ UNCHANGED <<envVars, providerVars, mgrVars, drVars, taskVars>>

\* the answers of the registry and the resolver are not fixed in advance
Unscripted == [scripted |-> FALSE]

\* the managers and the resolver right after their construction
ServicesInit ==
  /\ contracts = EmptyObject
  /\ deployedContracts = EmptyObject
  /\ nextHandle = 1
  /\ chainDeployed = {}
  /\ drPc = "idle"
  /\ drCall = NoCall
  /\ drDomain = << >>
  /\ resolverAddress = Null
  /\ address = Null
  /\ content = Null
  /\ metadata = EmptyObject
  /\ keyIdx = 0
  /\ drLog = << >>
  /\ tasks = [t \in TaskIds |-> NoTask]
  /\ chainPrice = 1
  /\ ret = NoReturn

\* the services are built on a provider whose construction succeeded, from
\* the default configuration with or without a private key
Init ==
  /\ bpPc = "ready"
  /\ walletConfigured \in BOOLEAN
  /\ config = DefaultConfig(walletConfigured)
  /\ provider = [kind |-> "InfuraProvider"]
  /\ web3 = [endpoint |-> "infura"]
  /\ connected = TRUE
  /\ chainRecords = Unscripted
  /\ kept = NoReturn
  /\ ServicesInit

\* no provider is constructed yet: the fields hold what the constructor gives
\* them before it calls initialize, and the configuration is not given yet
InitBP ==
  /\ bpPc = "new"
  /\ config = Null
  /\ provider = Null
  /\ web3 = Null
  /\ walletConfigured = FALSE
  /\ connected = FALSE
  /\ chainRecords = Unscripted
  /\ kept = NoReturn
  /\ ServicesInit

\* ------------------------------------------- two runs against one chain
\* The plugin is initialised again with another configuration, which gives a
\* new provider, new managers with empty caches and a new resolver on the same
\* chain; the caller keeps the result of a resolution to compare it with the
\* result of the same call made later.
ErrorReply == [kind |-> "error"]

\* what resolver.text answers for each key of textRecords
TextScripts ==
  { [i \in 1..Len(textRecords) |-> ErrorReply],
    [i \in 1..Len(textRecords) |->
       IF i = 6 THEN [kind |-> "value", value |-> TextSample[6]] ELSE ErrorReply],
    [i \in 1..Len(textRecords) |->
       IF i = 9 THEN [kind |-> "value", value |-> NotJson] ELSE [kind |-> "value", value |-> ""]] }

\* the records of the chain: the answer to each lookup of a resolution
ChainScripts ==
  [scripted : {TRUE}, registry : RegistryOutcomes, addr : AddrOutcomes,
   contenthash : {ErrorReply, [kind |-> "value", value |-> "0xe301"]}, text : TextScripts]

\* the configurations the plugin is initialised with: a key, no key, a bad key
PluginConfigs ==
  {DefaultConfig(TRUE), DefaultConfig(FALSE),
   [DefaultConfig(FALSE) EXCEPT !.privateKey = InvalidKey]}

\* initEastersCrypto: a new provider, and new services built on it
initEastersCrypto(cfg) ==
  LET made == initialize(cfg, "built")
  IN /\ BpReady
     /\ config' = cfg
     /\ provider' = made.provider
     /\ web3' = made.web3
     /\ walletConfigured' = made.wallet
     /\ connected' = made.connected
     /\ contracts' = EmptyObject
     /\ deployedContracts' = EmptyObject
     /\ MgrReturn("initEastersCrypto", [config |-> cfg], FALSE, [initialized |-> TRUE],
                  << >>, NoAcq)
     /\ UNCHANGED <<envVars, bpPc, nextHandle, chainDeployed, drVars, taskVars>>

\* the caller keeps the resolution result it was given, with the state the
\* provider and the caches were in, and carries on
CallerKeeps ==
  /\ ret.op \in {"resolveDomain", "verifyDomainOwnership", "getPropertyMetadata"}
  /\ kept' = [op |-> ret.op, args |-> ret.args, value |-> ret.value,
              wallet |-> walletConfigured,
              cached |-> (contracts # EmptyObject /\ deployedContracts # EmptyObject)]
  /\ ret' = NoReturn
  /\ UNCHANGED <<chainRecords, providerVars, mgrVars, drVars, taskVars>>

PluginDomains == { <<"a">> \o DotEth, <<"a", ".", "c", "o", "m">> }

NextPlugin ==
  \/ \E cfg \in PluginConfigs : initEastersCrypto(cfg)
  \/ TM_loadContract(Checksum(1), "ERC721")
  \/ SC_loadContract(Checksum(1), MarketplaceAbi)
  \/ \E d \in PluginDomains : resolveDomain(d)
  \/ \E d \in PluginDomains : verifyDomainOwnership(d, Lower(1))
  \/ \E d \in PluginDomains : getPropertyMetadata(d)
  \/ RegistryResponds(chainRecords.registry)
  \/ AddrResponds(chainRecords.addr)
  \/ ContenthashResponds(chainRecords.contenthash)
  \/ drPc = "text" /\ TextResponds(chainRecords.text[keyIdx])
  \/ CallerKeeps
  \/ CallerContinues

InitPlugin ==
  /\ bpPc = "ready"
  /\ walletConfigured \in BOOLEAN
  /\ config = DefaultConfig(walletConfigured)
  /\ provider = [kind |-> "InfuraProvider"]
  /\ web3 = [endpoint |-> "infura"]
  /\ connected = TRUE
  /\ chainRecords \in ChainScripts
  /\ kept = NoReturn
  /\ ServicesInit

SpecPlugin == InitPlugin /\ [][NextPlugin]_vars

\* the domains a caller passes to verifyDomainOwnership and getPropertyMetadata
CheckedDomains ==
  EthDomains \cup { <<"a", ".">> \o UnstoppableTlds[1], <<"a", ".", "c", "o", "m">> }

NextDR ==
  \/ \E d \in DirectDomains : resolveENSDomain(d)
  \/ \E d \in Domains : resolveDomain(d)
  \/ \E d \in CheckedDomains, a \in AddressInputs : verifyDomainOwnership(d, a)
  \/ \E d \in CheckedDomains : getPropertyMetadata(d)
  \/ \E o \in RegistryOutcomes : RegistryResponds(o)
  \/ \E o \in AddrOutcomes : AddrResponds(o)
  \/ \E o \in ContentOutcomes : ContenthashResponds(o)
  \/ \E i \in 1..Len(textRecords) : \E o \in TextOutcomes(i) : keyIdx = i /\ TextResponds(o)
  \/ CallerContinues

SpecDR == Init /\ [][NextDR]_vars

\* the network call the request in flight awaits returns or errors
NetworkResponds ==
  \/ \E o \in RegistryOutcomes : RegistryResponds(o)
  \/ \E o \in AddrOutcomes : AddrResponds(o)
  \/ \E o \in ContentOutcomes : ContenthashResponds(o)
  \/ \E i \in 1..Len(textRecords) : \E o \in TextOutcomes(i) : keyIdx = i /\ TextResponds(o)

\* every network call eventually returns or errors
FairDR == SpecDR /\ WF_vars(NetworkResponds)

NextBP ==
  \/ \E cfg \in Configs, o \in ClientOutcomes : BlockchainProvider(cfg, o)
  \/ isConnected
  \/ getProvider
  \/ getWeb3
  \/ getWallet
  \/ \E o \in NodeOutcomes : getGasPrice(o)
  \/ signMessage
  \/ \E o \in WriteOutcomes : sendTransaction(o)
  \/ CallerContinues

SpecBP == InitBP /\ [][NextBP]_vars

NextTM ==
  \/ \E a \in AddressInputs, t \in {"ERC721", "ERC1155"} : TM_loadContract(a, t)
  \/ \E a \in AddressInputs, r \in PartyInputs, o \in MintOutcomes :
       mintPropertyToken(a, r, o)
  \/ \E a \in AddressInputs, f \in 1..MaxShares, o \in WriteOutcomes :
       createFractionalTokens(a, TokenIdInput, f, o)
  \/ \E a \in AddressInputs, o \in MetadataOutcomes :
       getTokenMetadata(a, TokenIdInput, o)
  \/ \E a \in AddressInputs, f \in PartyInputs, to \in PartyInputs, o \in WriteOutcomes :
       transferToken(a, TokenIdInput, f, to, o)
  \/ getWallet
  \/ CallerContinues

NextSC ==
  \/ \E a \in AddressInputs, abi \in {MarketplaceAbi, FractionalAbi} : SC_loadContract(a, abi)
  \/ \E o \in DeployOutcomes : deployTokenizationContract(o)
  \/ \E a \in PartyInputs, o \in DeployOutcomes : deployFractionalContract(a, o)
  \/ \E a \in AddressInputs, p \in Prices, o \in WriteOutcomes :
       listPropertyForSale(a, TokenIdInput, p, o)
  \/ \E a \in AddressInputs, n \in ShareInputs, l \in ListingOutcomes, o \in WriteOutcomes :
       buyProperty(a, TokenIdInput, n, l, o)
  \/ getDeployedContracts
  \/ CallerContinues

SpecTM == Init /\ [][NextTM]_vars

SpecSC == Init /\ [][NextSC]_vars

NextMgr == NextTM \/ NextSC

SpecMgr == Init /\ [][NextMgr]_vars

NextAsync ==
  \/ \E t \in TaskIds, op \in TMAcquiring \cup SCAcquiring, a \in TaskAddresses :
       \E n \in AmountInputs(op) : TaskStarts(t, op, a, n)
  \/ \E t \in TaskIds :
       tasks[t].pc = "await" /\ \E o \in AwaitOutcomes(tasks[t]) : TaskResumes(t, o)
  \/ \E t \in TaskIds : ListingServed(t)
  \/ \E p \in Prices : PriceChanges(p)
  \/ CallerContinues

SpecAsync == Init /\ [][NextAsync]_vars

\* ================================================================ claims
Acquiring == TMAcquiring \cup SCAcquiring

DROps == {"resolveENSDomain", "resolveDomain", "verifyDomainOwnership",
          "getPropertyMetadata"}

\* the cache the operation's manager keeps, as address -> handle
CacheOf(op, tm, sc) ==
  IF op \in TMAcquiring THEN tm ELSE [a \in DOMAIN sc |-> sc[a].contract]

\* C1: an operation that acquires the handle of an address its manager has
\* cached gets the cached handle, creates no handle and leaves the cache as it
\* is; and the handle any acquisition returns is the one the cache holds
\* afterwards, so the next acquisition of that address returns it again.
C1_SecondAcquisitionSameHandle ==
  [][ (ret = NoReturn /\ ret'.op \in Acquiring /\ ret'.acq.ok) =>
        LET a == ret'.acq.address
            before == CacheOf(ret'.op, contracts, deployedContracts)
            after == CacheOf(ret'.op, contracts', deployedContracts')
        IN /\ a \in DOMAIN after /\ after[a] = ret'.acq.handle
           /\ a \in DOMAIN before =>
                /\ ret'.acq.handle = before[a]
                /\ ~ret'.acq.created
                /\ contracts' = contracts
                /\ deployedContracts' = deployedContracts
                /\ nextHandle' = nextHandle ]_vars

C1_Witness ==
  /\ ret.op \in SCAcquiring
  /\ ret.acq.ok
  /\ ~ret.acq.created
  /\ \E a \in DOMAIN contracts : contracts[a].id < ret.acq.handle.id

\* the address arguments of a completed call
AddressArgs(r) ==
  CASE r.op = "mintPropertyToken" -> {r.args.contractAddress, r.args.recipient}
    [] r.op \in {"createFractionalTokens", "getTokenMetadata"} -> {r.args.contractAddress}
    [] r.op = "transferToken" -> {r.args.contractAddress, r.args.from, r.args.to}
    [] r.op = "deployFractionalContract" -> {r.args.propertyTokenAddress}
    [] r.op \in SCAcquiring -> {r.args.marketplaceAddress}
    [] r.op = "verifyDomainOwnership" -> {r.args.address}
    [] OTHER -> {}

InvalidInputErrors == {ErrInvalidContract, ErrInvalidPropertyToken, ErrUnsupported}

IsFailure(value) == Has(value, "success") /\ ~value.success /\ Has(value, "error")

\* C2: a call given a malformed address returns an InvalidInput failure and
\* has issued no network call.
C2_MalformedAddressRejectedLocally ==
  (ret # NoReturn /\ \E a \in AddressArgs(ret) : ~isAddress(a)) =>
    /\ ~ret.threw
    /\ IsFailure(ret.value)
    /\ ret.value.error \in InvalidInputErrors
    /\ ret.calls = << >>

\* C3: every public call returns, without throwing, an object with a success
\* field, and with an error whenever success is false.
C3_StructuredResult ==
  ret # NoReturn =>
    /\ ~ret.threw
    /\ Has(ret.value, "success")
    /\ ~ret.value.success => Has(ret.value, "error")

ZeroReply == [kind |-> "value", value |-> AddressZero]

\* C4: a request whose registry lookup gave the zero address ends there, with
\* success false and the no-resolver error, having issued the registry lookup
\* and no call to any resolver.
C4_ZeroResolverIsTerminal ==
  (ret.op \in DROps /\ ret.registry = ZeroReply) =>
    /\ drPc = "idle"
    /\ ~ret.threw
    /\ IsFailure(ret.value)
    /\ ret.value.error.msg = "No resolver found for domain "
    /\ Len(ret.calls) = 1
    /\ ret.calls[1].to = "registry"
    /\ \A i \in 1..Len(ret.calls) : ret.calls[i].fn \notin {"addr", "contenthash", "text"}

C4_Witness ==
  /\ ret.op = "resolveDomain"
  /\ ret.registry = ZeroReply
  /\ ~ret.value.success

\* the metadata the request holds after a step: the one returned, or the one in flight
MetadataAfter(returned, r, md) == IF returned THEN r.resolution.metadata ELSE md

\* C5: whatever a text-record lookup gives back, the request goes on: the key
\* is in the metadata, with the value returned, exactly when the lookup gave a
\* non-empty value; the records gathered before are kept; the next key is
\* looked up, and after the last key the resolution returns success with that
\* metadata.
C5_TextRecordsArePartial ==
  [][ \A i \in 1..Len(textRecords) : \A o \in TextOutcomes(i) :
        (keyIdx = i /\ TextResponds(o)) =>
          LET key == textRecords[i]
              returned == ret' # NoReturn
              after == MetadataAfter(returned, ret', metadata')
              present == o.kind = "value" /\ o.value # ""
          IN /\ (key \in DOMAIN after) <=> present
             /\ present => after[key] = o.value
             /\ DOMAIN after \ {key} = DOMAIN metadata
             /\ \A k \in DOMAIN metadata : after[k] = metadata[k]
             /\ returned <=> i = Len(textRecords)
             /\ returned => ret'.resolution.success
             /\ ~returned =>
                  /\ keyIdx' = i + 1
                  /\ drLog'[Len(drLog')].fn = "text"
                  /\ drLog'[Len(drLog')].key = textRecords[i + 1] ]_vars

C5_Witness ==
  /\ ret.op = "resolveDomain"
  /\ ret.value.success
  /\ DOMAIN ret.value.metadata = {<<"property", ".", "beds">>}
  /\ ret.value.metadata[<<"property", ".", "beds">>] = "3"
  /\ Len(ret.calls) = 3 + Len(textRecords)

\* two strings that are equal after case folding
SameUpToCase(a, b) == a.cls = b.cls

\* C6: when the resolution succeeded, verifyDomainOwnership succeeds and says
\* verified exactly when the resolved and the claimed address are equal after
\* case folding.
C6_VerifiedIffSameAddress ==
  (ret.op = "verifyDomainOwnership" /\ ret.resolution.success) =>
    /\ ret.value.success
    /\ ret.value.ownerAddress = ret.resolution.address
    /\ ret.value.verified <=> SameUpToCase(ret.resolution.address, ret.args.address)

C6_Witness ==
  /\ ret.op = "verifyDomainOwnership"
  /\ ret.resolution.success
  /\ ret.value.verified
  /\ ret.args.address # ret.resolution.address

\* C7: when the resolution failed, verifyDomainOwnership returns success false,
\* verified false and the resolution's error.
C7_UnresolvedIsFailure ==
  (ret.op = "verifyDomainOwnership" /\ ~ret.resolution.success) =>
    /\ ~ret.threw
    /\ ~ret.value.success
    /\ ~ret.value.verified
    /\ ret.value.error = ret.resolution.error

C7_Witness ==
  /\ ret.op = "verifyDomainOwnership"
  /\ ~ret.resolution.success
  /\ ret.resolution.error = ErrNetwork
  /\ Len(ret.calls) = 2

\* the mint transaction of a completed mintPropertyToken was reverted
MintReverted(r) ==
  /\ r.op = "mintPropertyToken"
  /\ \E i \in 1..Len(r.calls) : r.calls[i].result = ErrRevert

\* C8 as stated: a reverted mint returns the revert reason and leaves the
\* handle cache and the registry as they were, cached address or not.
C8_RevertedMintLeavesCache ==
  [][ (ret = NoReturn /\ MintReverted(ret')) =>
        /\ IsFailure(ret'.value)
        /\ ret'.value.error = ErrRevert
        /\ contracts' = contracts
        /\ deployedContracts' = deployedContracts ]_vars

\* C8 amended: a reverted mint returns the revert reason, leaves the registry
\* as it was and keeps every binding the cache had; a cached address leaves
\* the cache as it was, an address not cached before leaves the one binding
\* the call created for it.
C8_RevertedMintKeepsBindings ==
  [][ (ret = NoReturn /\ MintReverted(ret')) =>
        LET a == ret'.args.contractAddress
        IN /\ IsFailure(ret'.value)
           /\ ret'.value.error = ErrRevert
           /\ deployedContracts' = deployedContracts
           /\ \A k \in DOMAIN contracts : k \in DOMAIN contracts' /\ contracts'[k] = contracts[k]
           /\ DOMAIN contracts' = DOMAIN contracts \cup {a}
           /\ contracts'[a].address = a
           /\ contracts'[a].id = ret'.calls[1].handle ]_vars

C8_Witness ==
  /\ MintReverted(ret)
  /\ ret.acq.created
  /\ Len(ret.calls) = 2
  /\ ret.args.contractAddress \in DOMAIN contracts

\* C9: once buyProperty has read a listing price p, it submits exactly one
\* purchase, after the read, with value p times shares (1 when shares is left out).
C9_PurchaseValueIsPriceTimesShares ==
  (ret.op = "buyProperty" /\ \E j \in CallsTo(ret.calls, "getPropertyListing") :
                               ret.calls[j].result.kind = "value") =>
    LET reads == CallsTo(ret.calls, "getPropertyListing")
        buys == CallsTo(ret.calls, "purchaseProperty")
        n == IF ret.args.shares = Undefined THEN 1 ELSE ret.args.shares
    IN /\ Cardinality(reads) = 1
       /\ Cardinality(buys) = 1
       /\ \A j \in reads : \A i \in buys :
            /\ j < i
            /\ ret.calls[i].value = ret.calls[j].result.price * n
            /\ ret.calls[i].handle = ret.calls[j].handle

C9_Witness ==
  /\ ret.op = "buyProperty"
  /\ ret.args.shares = 2
  /\ ret.value.success
  /\ \E i \in CallsTo(ret.calls, "purchaseProperty") : ret.calls[i].value = 2 * MaxPrice

\* the label after the last dot of a domain, and whether there is a dot
LastDot(domain) ==
  IF \E i \in 1..Len(domain) : domain[i] = "."
    THEN CHOOSE i \in 1..Len(domain) :
           domain[i] = "." /\ \A j \in (i + 1)..Len(domain) : domain[j] # "."
    ELSE 0

Tld(domain) == SubSeq(domain, LastDot(domain) + 1, Len(domain))

AlternateTlds ==
  { <<"c","r","y","p","t","o">>, <<"n","f","t">>,
    <<"b","l","o","c","k","c","h","a","i","n">>, <<"b","i","t","c","o","i","n">>,
    <<"x">>, <<"d","a","o">> }

\* C10: a call through resolveDomain takes the ENS path when the domain's last
\* label is eth, fails as not implemented without a network call when it is
\* one of the alternate labels, and fails as unsupported without a network
\* call otherwise.
C10_ClassifiedBySuffix ==
  (ret.op \in DROps \ {"resolveENSDomain"}) =>
    LET d == ret.args.domain
        dotted == LastDot(d) > 0
    IN CASE dotted /\ Tld(d) = <<"e", "t", "h">> ->
              /\ (ret.resolution.success
                    \/ ret.resolution.error \notin {ErrUnstoppable, ErrUnsupported})
              /\ ret.calls # << >>
              /\ ret.calls[1] = RegistryCall(d)
         [] dotted /\ Tld(d) \in AlternateTlds ->
              /\ ~ret.resolution.success
              /\ ret.resolution.error = ErrUnstoppable
              /\ ret.calls = << >>
         [] OTHER ->
              /\ ~ret.resolution.success
              /\ ret.resolution.error = ErrUnsupported
              /\ ret.calls = << >>

C10_Witness ==
  /\ ret.op = "resolveDomain"
  /\ ret.args.domain = <<"a", ".", "x">>
  /\ ret.value.error = ErrUnstoppable

\* the address-record lookup gave no address: it failed, or gave the zero address
AddressAbsent(o) == o.kind = "error" \/ o.value = AddressZero

\* C11: when the address-record lookup of a request gives no address, the
\* request goes on to the content lookup holding a null address, and does not
\* return a failure.
C11_AbsentAddressStillResolves ==
  [][ \A o \in AddrOutcomes :
        (AddrResponds(o) /\ AddressAbsent(o)) =>
          /\ ret' = NoReturn
          /\ drPc' = "contenthash"
          /\ address' \in {Null, AddressZero}
          /\ drLog'[Len(drLog')].fn = "contenthash" ]_vars

WriteOps == {"mintPropertyToken", "createFractionalTokens", "transferToken",
             "deployTokenizationContract", "deployFractionalContract",
             "listPropertyForSale", "buyProperty"}

\* the address arguments a completed write validates before it asks for the wallet
ValidatedArgs(r) ==
  CASE r.op \in TMAcquiring -> {r.args.contractAddress}
    [] r.op \in SCAcquiring -> {r.args.marketplaceAddress}
    [] r.op = "deployFractionalContract" -> {r.args.propertyTokenAddress}
    [] OTHER -> {}

\* an error message that is, or embeds, the message of a cause
Carries(error, cause) == error = cause \/ (Has(error, "cause") /\ error.cause = cause)

\* C12: without a wallet, getWallet throws the wallet error; every write
\* returns, without throwing, a failure and has issued no call; the failure
\* carries the wallet error whenever the address the write validates first is
\* well-formed; and no contract object exists, in either manager, that a write
\* could have fallen back to.
C12_NoSignerNoWrite ==
  ~walletConfigured =>
    /\ contracts = EmptyObject
    /\ deployedContracts = EmptyObject
    /\ nextHandle = 1
    /\ chainDeployed = {}
    /\ ret.op = "getWallet" => (ret.threw /\ ret.value = ErrWallet)
    /\ ret.op \in WriteOps =>
         /\ ~ret.threw
         /\ IsFailure(ret.value)
         /\ ret.calls = << >>
         /\ ret.acq.tried => ~ret.acq.ok
         /\ (\A a \in ValidatedArgs(ret) : isAddress(a)) => Carries(ret.value.error, ErrWallet)

C12_Witness ==
  /\ ~walletConfigured
  /\ ret.op = "buyProperty"
  /\ ret.value.error = ErrFailedToLoad(ErrWallet)

\* the keys of an address-keyed object hold each address once, whatever its case
OneEntryPerAddress(obj) ==
  \A a, b \in DOMAIN obj : SameUpToCase(a, b) => a = b

\* C13: in the handle cache and in the registry, two spellings of an address
\* that differ only in case are one entry, and an acquisition under either
\* spelling of a cached address creates no handle.
C13_KeysAreCaseInsensitive ==
  /\ OneEntryPerAddress(contracts)
  /\ OneEntryPerAddress(deployedContracts)
  /\ (ret.op \in Acquiring /\ ret.acq.ok /\ ret.acq.created) =>
       LET cache == CacheOf(ret.op, contracts, deployedContracts)
       IN \A k \in DOMAIN cache :
            SameUpToCase(k, ret.acq.address) => cache[k] = ret.acq.handle

\* the handles a cache holds for the address a key spells
HandlesOf(cache, key) == {cache[k] : k \in {j \in DOMAIN cache : SameUpToCase(j, key)}}

\* C14: each manager's cache holds at most one handle per address, so never
\* two with different ABIs; and after an explicit load the cache binds the
\* address to the handle the load returned, made with the ABI it was given.
C14_OneHandlePerAddress ==
  LET registry == CacheOf("SC.loadContract", contracts, deployedContracts)
  IN /\ \A k \in DOMAIN contracts : Cardinality(HandlesOf(contracts, k)) = 1
     /\ \A k \in DOMAIN registry : Cardinality(HandlesOf(registry, k)) = 1
     /\ (ret.op = "TM.loadContract" /\ ~ret.threw) =>
          /\ contracts[ret.args.contractAddress] = ret.value
          /\ ret.value.abi = AbiFor(ret.args.tokenType)
     /\ (ret.op = "SC.loadContract" /\ ~ret.threw) =>
          /\ registry[ret.args.address] = ret.value
          /\ ret.value.abi = ret.args.abi

\* the calls of a log that failed
FailedCalls(calls) == {i \in 1..Len(calls) : calls[i].result # Ok}

\* C15: a deployTokenizationContract whose creation was submitted and
\* confirmed live returns success and leaves in the registry, besides the
\* records it had, one PropertyTokenization record under the new address; one
\* whose creation or confirmation failed, or that had no wallet, returns a
\* failure and leaves the registry as it was.
C15_RecordOnlyAfterLive ==
  [][ (ret = NoReturn /\ ret'.op = "deployTokenizationContract") =>
        LET confirmed == /\ Len(ret'.calls) = 2
                         /\ ret'.calls[1].fn = "deploy"
                         /\ ret'.calls[2].fn = "deployed"
                         /\ FailedCalls(ret'.calls) = {}
        IN /\ ~ret'.threw
           /\ ret'.value.success <=> confirmed
           /\ confirmed =>
                LET a == ret'.value.contractAddress
                IN /\ a.cls \in chainDeployed'
                   /\ DOMAIN deployedContracts' = DOMAIN deployedContracts \cup {a}
                   /\ deployedContracts'[a].type = "PropertyTokenization"
                   /\ deployedContracts'[a].address = a
                   /\ deployedContracts'[a].contract.address = a
                   /\ \A k \in DOMAIN deployedContracts \ {a} :
                        deployedContracts'[k] = deployedContracts[k]
           /\ ~confirmed =>
                /\ IsFailure(ret'.value)
                /\ deployedContracts' = deployedContracts ]_vars

C15_Witness ==
  /\ ret.op = "deployTokenizationContract"
  /\ ret.value.success
  /\ ret.value.contractAddress \in DOMAIN deployedContracts
  /\ deployedContracts[ret.value.contractAddress].type = "PropertyTokenization"

\* C16: deployFractionalContract given a malformed propertyTokenAddress
\* returns the invalid-address failure, wallet or no wallet, having issued no
\* call and leaving the registry as it was; one that succeeds leaves under the
\* new address a FractionalOwnership record whose propertyTokenAddress is the
\* argument.
C16_FractionalValidatesThenLinks ==
  [][ (ret = NoReturn /\ ret'.op = "deployFractionalContract") =>
        LET linked == ret'.args.propertyTokenAddress
        IN /\ ~ret'.threw
           /\ linked \in Malformed =>
                /\ IsFailure(ret'.value)
                /\ ret'.value.error = ErrInvalidPropertyToken
                /\ ret'.calls = << >>
                /\ deployedContracts' = deployedContracts
                /\ nextHandle' = nextHandle
                /\ chainDeployed' = chainDeployed
           /\ ret'.value.success =>
                LET a == ret'.value.contractAddress
                IN /\ linked \notin Malformed
                   /\ FailedCalls(ret'.calls) = {}
                   /\ a \in DOMAIN deployedContracts'
                   /\ deployedContracts'[a].type = "FractionalOwnership"
                   /\ deployedContracts'[a].address = a
                   /\ deployedContracts'[a].propertyTokenAddress = linked
                   /\ ret'.value.propertyTokenAddress = linked ]_vars

C16_Witness ==
  /\ ~walletConfigured
  /\ ret.op = "deployFractionalContract"
  /\ ret.args.propertyTokenAddress \in Malformed
  /\ ret.value.error = ErrInvalidPropertyToken
  /\ ret.calls = << >>

\* C17: createFractionalTokens on an address the cache binds to an ERC721
\* handle gets that handle, creates none, leaves the cache as it was and
\* issues its mint through the ERC721-bound handle.
C17_TypeHintIgnoredOnHit ==
  [][ (/\ ret = NoReturn
       /\ ret'.op = "createFractionalTokens"
       /\ ret'.args.contractAddress \in DOMAIN contracts
       /\ contracts[ret'.args.contractAddress].abi = "ERC721") =>
        LET stored == contracts[ret'.args.contractAddress]
        IN /\ ret'.acq.ok
           /\ ~ret'.acq.created
           /\ ret'.acq.handle = stored
           /\ contracts' = contracts
           /\ nextHandle' = nextHandle
           /\ \A i \in CallsTo(ret'.calls, "mint") : ret'.calls[i].handle = stored.id ]_vars

C17_Witness ==
  /\ ret.op = "createFractionalTokens"
  /\ ret.acq.ok
  /\ ~ret.acq.created
  /\ ret.acq.handle.abi = "ERC721"
  /\ CallsTo(ret.calls, "mint") # {}

\* the tasks suspended at an await
InFlight == {t \in TaskIds : tasks[t].pc = "await"}

\* two calls of one manager running at the same time on the same address
Concurrent(t, u) ==
  /\ t # u
  /\ {t, u} \subseteq InFlight
  /\ (tasks[t].op \in TMAcquiring) <=> (tasks[u].op \in TMAcquiring)
  /\ tasks[t].address = tasks[u].address

\* C18: however the calls in flight interleave, each manager has created one
\* contract object for each address it was asked for and no other; every call
\* in flight holds the object its manager's cache binds to its address and has
\* issued its contract calls through it; so calls running at the same time on
\* one address share one object, which at most one of them created.
C18_OneLoadPerAddress ==
  /\ nextHandle - 1 = Cardinality(DOMAIN contracts) + Cardinality(DOMAIN deployedContracts)
  /\ \A t \in InFlight :
       LET task == tasks[t]
           cache == CacheOf(task.op, contracts, deployedContracts)
       IN /\ task.acq.ok
          /\ task.address \in DOMAIN cache
          /\ cache[task.address] = task.acq.handle
          /\ \A i \in 1..Len(task.calls) :
               task.calls[i].handle \in {task.acq.handle.id, NoHandle.id}
          /\ task.calls[1].handle = task.acq.handle.id
  /\ \A t, u \in TaskIds :
       Concurrent(t, u) =>
         /\ tasks[t].acq.handle = tasks[u].acq.handle
         /\ ~(tasks[t].acq.created /\ tasks[u].acq.created)

C18_Witness ==
  \E t, u \in TaskIds :
    /\ Concurrent(t, u)
    /\ tasks[t].op = "mintPropertyToken"
    /\ tasks[u].op = "createFractionalTokens"
    /\ tasks[t].acq.created
    /\ ~tasks[u].acq.created
    /\ tasks[u].acq.handle = tasks[t].acq.handle
    /\ Len(tasks[t].calls) = 2

\* the log of a buyProperty: one listing read, first; at most one purchase,
\* second, paying the price the read gave back times the shares
BuyLogOk(calls, shares) ==
  /\ calls # << >> => CallsTo(calls, "getPropertyListing") = {1}
  /\ CallsTo(calls, "purchaseProperty") \subseteq {2}
  /\ CallsTo(calls, "purchaseProperty") # {} =>
       /\ calls[1].result.kind = "value"
       /\ calls[2].value = calls[1].result.price * shares

\* C19: a buyProperty reads the listing once and submits at most one
\* purchase; when it resumes with the listing it read, it submits the purchase
\* paying the price it read times the shares, whatever the price the contract
\* holds by then, and a change of that price leaves the calls in flight as
\* they are.
C19_PurchaseUsesPriceRead ==
  [][ /\ \A t \in TaskIds :
           tasks'[t].op = "buyProperty" => BuyLogOk(tasks'[t].calls, tasks'[t].amount)
      /\ ret'.op = "buyProperty" => BuyLogOk(ret'.calls, ret'.args.shares)
      /\ \A t \in TaskIds :
           (/\ tasks[t].op = "buyProperty"
            /\ Len(tasks[t].calls) = 1
            /\ tasks[t].calls[1].result # Pending
            /\ tasks'[t] # tasks[t]
            /\ tasks'[t].pc = "await") =>
             /\ Len(tasks'[t].calls) = 2
             /\ tasks'[t].calls[1] = tasks[t].calls[1]
             /\ tasks'[t].calls[2].fn = "purchaseProperty"
             /\ tasks'[t].calls[2].value = tasks[t].calls[1].result.price * tasks[t].amount
      /\ chainPrice' # chainPrice => tasks' = tasks ]_vars

\* a purchase is submitted paying something else than price times shares
C19_Witness ==
  \E t \in TaskIds :
    /\ tasks[t].op = "buyProperty"
    /\ Len(tasks[t].calls) = 2
    /\ tasks[t].calls[2].fn = "purchaseProperty"
    /\ tasks[t].calls[2].result = Pending
    /\ tasks[t].calls[2].value # chainPrice * tasks[t].amount

\* C20: a record enters the registry, or changes, only in a step of an
\* explicit loadContract that returned, under the address it was given, or of
\* a deployment that succeeded, under the address of the new contract.
C20_RecordsOnlyFromDeployOrLoad ==
  [][ \A a \in DOMAIN deployedContracts' :
        (a \notin DOMAIN deployedContracts \/ deployedContracts'[a] # deployedContracts[a]) =>
          \/ /\ ret'.op = "SC.loadContract"
             /\ ~ret'.threw
             /\ ret'.args.address = a
          \/ /\ ret'.op \in {"deployTokenizationContract", "deployFractionalContract"}
             /\ ret'.value.success
             /\ ret'.value.contractAddress = a ]_vars

\* the suffixes of the text-record keys in the property namespace
PropertySuffixes == {"location", "beds", "baths", "sqft", "images", "video"}

\* C21: getPropertyMetadata on a resolution that succeeded returns the
\* resolution's fields and a propertyMetadata holding, for each property.*
\* record of the metadata, its value under the key without the prefix, and
\* nothing else; images is the parsed list when the record is JSON and the
\* record's string when it is not; on a resolution that failed it returns the
\* failure itself.
C21_PropertyMetadataIsPrefixFilter ==
  ret.op = "getPropertyMetadata" =>
    /\ ~ret.threw
    /\ ~ret.resolution.success => ret.value = ret.resolution
    /\ ret.resolution.success =>
         LET md == ret.resolution.metadata
             pm == ret.value.propertyMetadata
         IN /\ ret.value.success
            /\ ret.value.metadata = md
            /\ ret.value.address = ret.resolution.address
            /\ ret.value.content = ret.resolution.content
            /\ DOMAIN pm \subseteq {<<s>> : s \in PropertySuffixes}
            /\ \A s \in PropertySuffixes :
                 LET key == <<"property", ".", s>>
                 IN /\ <<s>> \in DOMAIN pm <=> key \in DOMAIN md
                    /\ key \in DOMAIN md =>
                         pm[<<s>>] = IF s = "images" /\ md[key] = "[\"u1\",\"u2\"]"
                                       THEN <<"u1", "u2">> ELSE md[key]

C21_Witness ==
  /\ ret.op = "getPropertyMetadata"
  /\ ret.value.success
  /\ DOMAIN ret.value.metadata = {<<"url">>, ImagesKey}
  /\ ret.value.propertyMetadata = [k \in {<<"images">>} |-> NotJson]

\* the content lookup failed, or gave nothing, or gave a value that does not decode
ContentUnusable(o) == o.kind = "error" \/ o.value \in {"", "0x", "0xzz"}

\* C22: when the content lookup fails or gives an empty or undecodable
\* value, the request holds a null content, returns nothing yet and goes on
\* to the first text-record lookup; from there on the content is kept, and
\* the request returns success with that content and without an error after
\* one lookup per text-record key.
C22_ContentFailureIsSwallowed ==
  [][ /\ \A o \in ContentOutcomes :
           (ContenthashResponds(o) /\ ContentUnusable(o)) =>
             /\ content' = Null
             /\ ret' = NoReturn
             /\ drPc' = "text"
             /\ drLog'[Len(drLog')] = TextCall(resolverAddress, drDomain, textRecords[1])
      /\ (drPc = "text" /\ drPc' = "text") => content' = content
      /\ (drPc = "text" /\ ret' # NoReturn) =>
           /\ ~ret'.threw
           /\ ret'.resolution.success
           /\ ~Has(ret'.resolution, "error")
           /\ ret'.resolution.content = content
           /\ Cardinality(CallsTo(ret'.calls, "text")) = Len(textRecords) ]_vars

C22_Witness ==
  /\ ret.op = "resolveENSDomain"
  /\ ret.value.success
  /\ ret.value.content = Null
  /\ Cardinality(CallsTo(ret.calls, "text")) = Len(textRecords)
  /\ DOMAIN ret.value.metadata = {<<"description">>}

\* a call log holds at most one registry lookup, one address lookup, one
\* content lookup and one text lookup per key, in the order of the protocol
OneLookupEach(log) ==
  /\ \A fn \in {"resolver", "addr", "contenthash"} : Cardinality(CallsTo(log, fn)) <= 1
  /\ \A i, j \in CallsTo(log, "text") : log[i].key = log[j].key => i = j
  /\ \A i \in CallsTo(log, "text") : \E k \in 1..Len(textRecords) : log[i].key = textRecords[k]
  /\ Len(log) <= 3 + Len(textRecords)

\* C23: a resolution request in flight leads to a returned result with a
\* success field, every awaited network call returning or failing in the end;
\* and the request in flight, like the one that returned, has issued each
\* lookup at most once.
C23_ResolutionTerminates ==
  /\ (drPc # "idle") ~> (drPc = "idle" /\ ret.op \in DROps /\ Has(ret.resolution, "success"))
  /\ [](OneLookupEach(drLog) /\ (ret.op \in DROps => OneLookupEach(ret.calls)))

C23_Witness ==
  /\ ret.op = "verifyDomainOwnership"
  /\ ret.resolution.success
  /\ Len(ret.calls) = 3 + Len(textRecords)
  /\ OneLookupEach(ret.calls)

\* the calls of a log made on a resolver
ResolverCalls(log) == {i \in 1..Len(log) : log[i].fn \in {"addr", "contenthash", "text"}}

\* the registry answered with the address of a resolver
ResolverFound(reply) == reply.kind = "value" /\ reply.value # AddressZero

\* C24: a request has issued no resolver call while it awaits the registry;
\* the step in which the registry answers issues the first resolver call
\* exactly when the answer is a non-zero address, and on that address; every
\* later resolver call is on that address too; and the result names, as
\* resolverAddress, the address the registry gave.
C24_RegistryBeforeRecords ==
  [][ /\ drPc = "registry" => ResolverCalls(drLog) = {}
      /\ \A o \in RegistryOutcomes :
           RegistryResponds(o) =>
             /\ ResolverCalls(drLog') # {} <=> ResolverFound(o)
             /\ ResolverFound(o) =>
                  /\ drLog' = Append(drLog, drLog'[2])
                  /\ drLog'[2].fn = "addr"
                  /\ drLog'[2].to = o.value
      /\ \A i \in ResolverCalls(drLog') :
           /\ i > 1
           /\ drLog'[1] = RegistryCall(drDomain')
           /\ drLog'[i].to = drLog'[2].to
           /\ drLog'[i].domain = drLog'[1].domain
      /\ (ret = NoReturn /\ ret'.op \in DROps) =>
           /\ ResolverCalls(ret'.calls) # {} => ResolverFound(ret'.registry)
           /\ \A i \in ResolverCalls(ret'.calls) :
                /\ ret'.calls[1].to = "registry"
                /\ ret'.calls[i].to = ret'.registry.value
                /\ ret'.calls[i].to = drLog[2].to
           /\ ret'.resolution.success =>
                /\ ResolverFound(ret'.registry)
                /\ ret'.resolution.resolverAddress = ret'.registry.value
                /\ ret'.resolution.resolverAddress = drLog[2].to ]_vars

C24_Witness ==
  /\ drPc = "text"
  /\ keyIdx = 2
  /\ Len(drLog) = 5
  /\ drLog[1].to = "registry"
  /\ \A i \in 2..5 : drLog[i].to = Checksum(1)

\* C25: mintPropertyToken returns success only when the mint was confirmed
\* and its receipt carries a Transfer event, and then with the token
\* identifier of that event; a confirmed mint whose receipt carries no
\* Transfer event returns a failure.
C25_MintSuccessCarriesTokenId ==
  [][ \A a \in AddressInputs, r \in PartyInputs, o \in MintOutcomes :
        mintPropertyToken(a, r, o) =>
          /\ ~ret'.threw
          /\ ret'.value.success =>
               /\ o.kind = "receipt"
               /\ FailedCalls(ret'.calls) = {}
               /\ CallsTo(ret'.calls, "wait") # {}
               /\ o.transfer
               /\ ret'.value.tokenId = [str |-> o.tokenId]
          /\ (o.kind = "receipt" /\ ret'.acq.ok /\ ~o.transfer) => IsFailure(ret'.value) ]_vars

\* a step of the construction raised: a client constructor, or the wallet on a bad key
ConstructionRaised(cfg, outcome) ==
  outcome \in {"providerThrows", "web3Throws"} \/ cfg.privateKey = InvalidKey

\* C26: the constructor returns without throwing, and leaves connected
\* false when a step of the construction raised and true otherwise;
\* isConnected returns the flag and has issued no call; and no step after
\* the construction changes the flag.
C26_ConnectedIsSetOnceAtConstruction ==
  [][ /\ \A cfg \in Configs, o \in ClientOutcomes :
           BlockchainProvider(cfg, o) =>
             /\ ~ret'.threw
             /\ bpPc' = "ready"
             /\ connected' <=> ~ConstructionRaised(cfg, o)
      /\ bpPc = "ready" => (bpPc' = "ready" /\ connected' = connected)
      /\ (ret = NoReturn /\ ret'.op = "isConnected") =>
           /\ ~ret'.threw
           /\ ret'.value = connected
           /\ ret'.calls = << >>
           /\ UNCHANGED <<envVars, providerVars, mgrVars>> ]_vars

C26_Witness ==
  /\ ret.op = "isConnected"
  /\ ret.value = FALSE
  /\ config.privateKey = InvalidKey
  /\ provider # Null
  /\ web3 # Null

\* the record the registry holds under an address is no longer what it was
RecordChanged(a) ==
  a \notin DOMAIN deployedContracts' \/ deployedContracts'[a] # deployedContracts[a]

\* C27: for an address that has a registry record, a listPropertyForSale or
\* buyProperty given that address, succeeding or failing, leaves the record
\* as it is and works through the record's handle; a loadContract given that
\* address puts in its place a record of type custom with a new handle and no
\* linked address; and of the operations that are given an address, on this
\* address or another, none but such a loadContract changes the record.
C27_ListAndBuyKeepTheRecord ==
  [][ \A a \in DOMAIN deployedContracts :
        /\ (ret = NoReturn /\ ret'.op \in SCAcquiring /\ ret'.args.marketplaceAddress = a) =>
             /\ ~RecordChanged(a)
             /\ ret'.acq.ok
             /\ ~ret'.acq.created
             /\ ret'.acq.handle = deployedContracts[a].contract
             /\ \A i \in 1..Len(ret'.calls) :
                  ret'.calls[i].handle \in {deployedContracts[a].contract.id, NoHandle.id}
        /\ (ret = NoReturn /\ ret'.op = "SC.loadContract" /\ ret'.args.address = a) =>
             /\ ~ret'.threw
             /\ RecordChanged(a)
             /\ deployedContracts'[a].type = "custom"
             /\ ~Has(deployedContracts'[a], "propertyTokenAddress")
             /\ deployedContracts'[a].contract = ret'.value
             /\ ret'.value.id # deployedContracts[a].contract.id
             /\ ret'.value.abi = ret'.args.abi
        /\ (ret = NoReturn /\ ret'.op \in SCAcquiring \cup {"SC.loadContract"}
              /\ RecordChanged(a)) =>
             /\ ret'.op = "SC.loadContract"
             /\ ret'.args.address = a ]_vars

C27_Witness ==
  /\ ret.op = "buyProperty"
  /\ ~ret.value.success
  /\ ret.calls # << >>
  /\ ret.args.marketplaceAddress \in DOMAIN deployedContracts
  /\ deployedContracts[ret.args.marketplaceAddress].type = "FractionalOwnership"
  /\ Has(deployedContracts[ret.args.marketplaceAddress], "propertyTokenAddress")
  /\ ret.calls[1].handle = deployedContracts[ret.args.marketplaceAddress].contract.id

\* the last four characters of a domain are .eth
DotEthLast(domain) ==
  /\ Len(domain) >= 4
  /\ <<domain[Len(domain) - 3], domain[Len(domain) - 2], domain[Len(domain) - 1],
       domain[Len(domain)]>> = <<".", "e", "t", "h">>

\* a successful resolution result names a resolver and an .eth domain
NamesEthResolver(result) ==
  /\ Has(result, "resolverAddress")
  /\ result.resolverAddress \notin {Null, AddressZero}
  /\ result.resolverAddress.cls > 0
  /\ Has(result, "domain")
  /\ DotEthLast(result.domain)

\* C28: a resolution result with success true, as resolveENSDomain,
\* resolveDomain and getPropertyMetadata return it and as
\* verifyDomainOwnership receives it, has a non-zero resolverAddress and a
\* domain that ends in .eth; and a call through resolveDomain with a domain
\* that does not end in .eth gets a resolution with success false.
C28_SuccessMeansEthResolver ==
  ret.op \in DROps =>
    /\ ret.resolution.success => NamesEthResolver(ret.resolution)
    /\ (ret.op \in {"resolveENSDomain", "resolveDomain", "getPropertyMetadata"}
          /\ ret.value.success) => NamesEthResolver(ret.value)
    /\ (ret.op # "resolveENSDomain" /\ ~DotEthLast(ret.args.domain)) =>
         /\ ~ret.resolution.success
         /\ Has(ret.resolution, "error")
         /\ ret.op # "verifyDomainOwnership" => ~ret.value.success

C28_Witness ==
  /\ ret.op = "resolveENSDomain"
  /\ ret.args.domain = <<"a", ".", "x">>
  /\ ret.value.success
  /\ ret.value.domain = <<"a", ".", "x", ".", "e", "t", "h">>
  /\ ret.value.resolverAddress = Checksum(1)

\* the step belongs to a resolution: it starts one, advances one or returns one
ResolutionStep ==
  \/ drPc # "idle"
  \/ drPc' # "idle"
  \/ (ret = NoReturn /\ ret'.op \in DROps)

\* C29: no step of a resolution changes the provider's fields, the handle
\* cache or the registry; and a resolveDomain, verifyDomainOwnership or
\* getPropertyMetadata call returns what the same call returned before on the
\* same chain records, though the plugin was initialised again with or without
\* a key in between and the caches were filled or emptied.
C29_ResolutionIgnoresSignerAndCaches ==
  [][ /\ ResolutionStep => UNCHANGED <<providerVars, mgrVars>>
      /\ (ret = NoReturn /\ ret'.op \in DROps
            /\ kept # NoReturn /\ kept.op = ret'.op /\ kept.args = ret'.args) =>
           ret'.value = kept.value ]_vars

C29_Witness ==
  /\ kept # NoReturn
  /\ kept.op = "getPropertyMetadata"
  /\ kept.wallet
  /\ kept.cached
  /\ kept.value.success
  /\ ret.op = kept.op
  /\ ret.args = kept.args
  /\ ret.value = kept.value
  /\ ~walletConfigured
  /\ contracts = EmptyObject
  /\ deployedContracts = EmptyObject

====
